---- MODULE Spec2Model ----
(***************************************************************************)
(* A model of the shell in src/src/main.rs: the three scanners             *)
(* (parse_pipeline, parse_redirection, parse_args), the dispatcher         *)
(* (parse_command), the single-stage executor (execute_command) and the    *)
(* fork/pipe/dup2/wait pipeline executor (execute_pipeline).               *)
(*                                                                         *)
(* A string is a sequence of one-character strings.  Option<T> is a        *)
(* sequence of length 0 (None) or 1 (Some).                                *)
(***************************************************************************)
EXTENDS Integers, Sequences, FiniteSets, TLC

None == << >>
Some(x) == << x >>

\* ------------------------------------------------------------------------
\* String helpers (str::trim, str::trim_end, split_whitespace, join)
\* ------------------------------------------------------------------------
IsWhite(c) == c \in {" ", "\t"}

RECURSIVE TrimStart(_)
TrimStart(s) ==
  IF s # << >> /\ IsWhite(Head(s)) THEN TrimStart(Tail(s)) ELSE s

RECURSIVE TrimEnd(_)
TrimEnd(s) ==
  IF s # << >> /\ IsWhite(s[Len(s)]) THEN TrimEnd(SubSeq(s, 1, Len(s) - 1)) ELSE s

Trim(s) == TrimEnd(TrimStart(s))

RECURSIVE SplitWhitespaceFrom(_, _, _)
SplitWhitespaceFrom(s, cur, acc) ==
  IF s = << >> THEN (IF cur = << >> THEN acc ELSE Append(acc, cur))
  ELSE IF IsWhite(Head(s))
       THEN SplitWhitespaceFrom(Tail(s), << >>,
                                IF cur = << >> THEN acc ELSE Append(acc, cur))
       ELSE SplitWhitespaceFrom(Tail(s), Append(cur, Head(s)), acc)

SplitWhitespace(s) == SplitWhitespaceFrom(s, << >>, << >>)

RECURSIVE JoinSpace(_)
JoinSpace(args) ==
  IF args = << >> THEN << >>
  ELSE IF Len(args) = 1 THEN args[1]
  ELSE args[1] \o << " " >> \o JoinSpace(Tail(args))

\* ------------------------------------------------------------------------
\* parse_pipeline: split the line at `|` outside quotes
\* ------------------------------------------------------------------------
PipelineStep(st, ch) ==
  IF st.escaped
  THEN [st EXCEPT !.current = Append(@, ch), !.escaped = FALSE]
  ELSE IF ch = "\\" /\ ~st.in_single_quote
  THEN [st EXCEPT !.escaped = TRUE, !.current = Append(@, ch)]
  ELSE IF ch = "'" /\ ~st.in_double_quote
  THEN [st EXCEPT !.in_single_quote = ~@, !.current = Append(@, ch)]
  ELSE IF ch = "\"" /\ ~st.in_single_quote
  THEN [st EXCEPT !.in_double_quote = ~@, !.current = Append(@, ch)]
  ELSE IF ch = "|" /\ ~st.in_single_quote /\ ~st.in_double_quote
  THEN IF Trim(st.current) # << >>
       THEN [st EXCEPT !.commands = Append(@, Trim(st.current)),
                       !.current = << >>]
       ELSE st
  ELSE [st EXCEPT !.current = Append(@, ch)]

RECURSIVE PipelineLoop(_, _, _)
PipelineLoop(input, i, st) ==
  IF i > Len(input) THEN st
  ELSE PipelineLoop(input, i + 1, PipelineStep(st, input[i]))

parse_pipeline(input) ==
  LET st0 == [commands |-> << >>, current |-> << >>,
              in_single_quote |-> FALSE, in_double_quote |-> FALSE,
              escaped |-> FALSE]
      st == PipelineLoop(input, 1, st0)
      commands == IF Trim(st.current) # << >>
                  THEN Append(st.commands, Trim(st.current))
                  ELSE st.commands
  IN IF commands = << >> THEN << input >> ELSE commands

\* ------------------------------------------------------------------------
\* parse_filename / parse_redirection
\* ------------------------------------------------------------------------
\* The scan position i plays the part of the Peekable<Chars> iterator.
RECURSIVE FilenameLoop(_, _, _)
FilenameLoop(input, i, filename) ==
  IF i > Len(input) THEN [filename |-> filename, i |-> i]
  ELSE LET ch == input[i] IN
       IF ch = " " \/ ch = ">"
       THEN [filename |-> filename, i |-> i]
       ELSE IF ch \in {"1", "2"} /\ i + 1 <= Len(input) /\ input[i + 1] = ">"
       THEN [filename |-> filename, i |-> i]
       ELSE FilenameLoop(input, i + 1, Append(filename, ch))

parse_filename(input, i) ==
  LET r == FilenameLoop(input, i, << >>)
  IN [filename |-> Trim(r.filename), i |-> r.i]

RECURSIVE SkipSpaces(_, _)
SkipSpaces(input, i) ==
  IF i <= Len(input) /\ input[i] = " " THEN SkipSpaces(input, i + 1) ELSE i

\* The operator body shared by the `>`, `1>` and `2>` arms: j is the position
\* just after the first `>`; fd is the slot the operator names.
RedirOperatorFd1Only(st, input, j, fd) ==
  LET is_append == j <= Len(input) /\ input[j] = ">"
      k == SkipSpaces(input, IF is_append THEN j + 1 ELSE j)
      f == parse_filename(input, k)
  IN IF f.filename = << >>
     THEN [st EXCEPT !.i = f.i]
     ELSE [st EXCEPT !.i = f.i, !.stdout_file = Some(f.filename),
                     !.stdout_append = is_append]

\* The first operator with a file name keeps the slot
RedirOperatorFirstWins(st, input, j, fd) ==
  LET is_append == j <= Len(input) /\ input[j] = ">"
      k == SkipSpaces(input, IF is_append THEN j + 1 ELSE j)
      f == parse_filename(input, k)
  IN IF f.filename = << >>
     THEN [st EXCEPT !.i = f.i]
     ELSE IF fd = 1
     THEN (IF st.stdout_file # None THEN [st EXCEPT !.i = f.i]
           ELSE [st EXCEPT !.i = f.i, !.stdout_file = Some(f.filename),
                           !.stdout_append = is_append])
     ELSE (IF st.stderr_file # None THEN [st EXCEPT !.i = f.i]
           ELSE [st EXCEPT !.i = f.i, !.stderr_file = Some(f.filename),
                           !.stderr_append = is_append])

RedirOperator(st, input, j, fd) ==
  LET is_append == j <= Len(input) /\ input[j] = ">"
      k == SkipSpaces(input, IF is_append THEN j + 1 ELSE j)
      f == parse_filename(input, k)
  IN IF f.filename = << >>
     THEN [st EXCEPT !.i = f.i]
     ELSE IF fd = 1
     THEN [st EXCEPT !.i = f.i, !.stdout_file = Some(f.filename),
                     !.stdout_append = is_append]
     ELSE [st EXCEPT !.i = f.i, !.stderr_file = Some(f.filename),
                     !.stderr_append = is_append]

RedirPush(st, ch) ==
  [st EXCEPT !.i = @ + 1, !.command_part = Append(@, ch)]

RedirStep(st, input) ==
  LET ch == input[st.i]
      unq == ~st.in_single_quote /\ ~st.in_double_quote
      nextIsGt == st.i + 1 <= Len(input) /\ input[st.i + 1] = ">"
  IN IF st.escaped
     THEN [RedirPush(st, ch) EXCEPT !.escaped = FALSE]
     ELSE IF ch = "\\" /\ ~st.in_single_quote
     THEN [RedirPush(st, ch) EXCEPT !.escaped = TRUE]
     ELSE IF ch = "'" /\ ~st.in_double_quote
     THEN [RedirPush(st, ch) EXCEPT !.in_single_quote = ~@]
     ELSE IF ch = "\"" /\ ~st.in_single_quote
     THEN [RedirPush(st, ch) EXCEPT !.in_double_quote = ~@]
     ELSE IF ch = ">" /\ unq
     THEN RedirOperator(st, input, st.i + 1, 1)
     ELSE IF ch = "1" /\ unq
     THEN IF nextIsGt THEN RedirOperator(st, input, st.i + 2, 1)
          ELSE RedirPush(st, ch)
     ELSE IF ch = "2" /\ unq
     THEN IF nextIsGt THEN RedirOperator(st, input, st.i + 2, 2)
          ELSE RedirPush(st, ch)
     ELSE [RedirPush(st, ch) EXCEPT !.escaped = FALSE]

RECURSIVE RedirLoop(_, _)
RedirLoop(st, input) ==
  IF st.i > Len(input) THEN st ELSE RedirLoop(RedirStep(st, input), input)

\* Returns [command_part, redirection]; redirection is an Option<Redirection>.
parse_redirection(input) ==
  LET st0 == [i |-> 1, command_part |-> << >>,
              in_single_quote |-> FALSE, in_double_quote |-> FALSE,
              escaped |-> FALSE,
              stdout_file |-> None, stdout_append |-> FALSE,
              stderr_file |-> None, stderr_append |-> FALSE]
      st == RedirLoop(st0, input)
  IN [command_part |-> TrimEnd(st.command_part),
      redirection |->
        IF st.stdout_file # None \/ st.stderr_file # None
        THEN Some([stdout_file |-> st.stdout_file,
                   stdout_append |-> st.stdout_append,
                   stderr_file |-> st.stderr_file,
                   stderr_append |-> st.stderr_append])
        ELSE None]

\* ------------------------------------------------------------------------
\* parse_args: the Lexer
\* ------------------------------------------------------------------------
\* `if !current_arg.is_empty() { args.push(current_arg) }`
EndOfArgKeepsEmpty(args, current_arg) == Append(args, current_arg)

EndOfArg(args, current_arg) ==
  IF current_arg # << >> THEN Append(args, current_arg) ELSE args

\* `next_ch == '"' || next_ch == '\\'`: what a backslash escapes inside
\* double quotes
DqEscapableAny(next_ch) == TRUE

DqEscapable(next_ch) == next_ch \in { "\"", "\\" }

ArgsStep(st, input) ==
  LET ch == input[st.i]
      s1 == [st EXCEPT !.i = @ + 1]
  IN IF st.escaped
     THEN [s1 EXCEPT !.current_arg = Append(@, ch), !.escaped = FALSE]
     ELSE IF ch = "\\" /\ st.in_double_quote
     THEN IF st.i + 1 <= Len(input) /\ DqEscapable(input[st.i + 1])
          THEN [st EXCEPT !.i = @ + 2,
                          !.current_arg = Append(@, input[st.i + 1])]
          ELSE [s1 EXCEPT !.current_arg = Append(@, "\\")]
     ELSE IF ch = "\\" /\ ~st.in_single_quote /\ ~st.in_double_quote
     THEN [s1 EXCEPT !.escaped = TRUE]
     ELSE IF ch = "'" /\ ~st.in_double_quote
     THEN [s1 EXCEPT !.in_single_quote = ~@]
     ELSE IF ch = "\"" /\ ~st.in_single_quote
     THEN [s1 EXCEPT !.in_double_quote = ~@]
     ELSE IF ch = " " /\ ~st.in_single_quote /\ ~st.in_double_quote
     THEN [s1 EXCEPT !.args = EndOfArg(@, st.current_arg),
                     !.current_arg = << >>]
     ELSE [s1 EXCEPT !.current_arg = Append(@, ch)]

RECURSIVE ArgsLoop(_, _)
ArgsLoop(st, input) ==
  IF st.i > Len(input) THEN st ELSE ArgsLoop(ArgsStep(st, input), input)

parse_args(input) ==
  LET st0 == [i |-> 1, args |-> << >>, current_arg |-> << >>,
              in_single_quote |-> FALSE, in_double_quote |-> FALSE,
              escaped |-> FALSE]
      st == ArgsLoop(st0, input)
  IN EndOfArg(st.args, st.current_arg)

\* ------------------------------------------------------------------------
\* The Lexer's reading of a line.  Following the arms of parse_args, every
\* character is marked
\*   "op"  when it is read outside quotes with no escape pending, so that a
\*         space separates and an operator character keeps its meaning,
\*   "esc" when it is taken literally after a backslash outside quotes,
\*   "lit" when it is taken literally inside quotes,
\*   "syn" when it is a quote or an escaping backslash, which is dropped.
\* ------------------------------------------------------------------------
RECURSIVE LexerMarksLoop(_, _, _)
LexerMarksLoop(input, st, marks) ==
  IF st.i > Len(input)
  THEN [marks |-> marks, in_single_quote |-> st.in_single_quote,
        in_double_quote |-> st.in_double_quote, escaped |-> st.escaped]
  ELSE LET ch == input[st.i]
           s1 == [st EXCEPT !.i = @ + 1]
       IN IF st.escaped
          THEN LexerMarksLoop(input, [s1 EXCEPT !.escaped = FALSE],
                              Append(marks, "esc"))
          ELSE IF ch = "\\" /\ st.in_double_quote
          THEN IF st.i + 1 <= Len(input) /\ input[st.i + 1] \in {"\"", "\\"}
               THEN LexerMarksLoop(input, [st EXCEPT !.i = @ + 2],
                                   marks \o << "syn", "lit" >>)
               ELSE LexerMarksLoop(input, s1, Append(marks, "lit"))
          ELSE IF ch = "\\" /\ ~st.in_single_quote
          THEN LexerMarksLoop(input, [s1 EXCEPT !.escaped = TRUE],
                              Append(marks, "syn"))
          ELSE IF ch = "'" /\ ~st.in_double_quote
          THEN LexerMarksLoop(input, [s1 EXCEPT !.in_single_quote = ~@],
                              Append(marks, "syn"))
          ELSE IF ch = "\"" /\ ~st.in_single_quote
          THEN LexerMarksLoop(input, [s1 EXCEPT !.in_double_quote = ~@],
                              Append(marks, "syn"))
          ELSE IF st.in_single_quote \/ st.in_double_quote
          THEN LexerMarksLoop(input, s1, Append(marks, "lit"))
          ELSE LexerMarksLoop(input, s1, Append(marks, "op"))

LexerReading(input) ==
  LexerMarksLoop(input, [i |-> 1, in_single_quote |-> FALSE,
                         in_double_quote |-> FALSE, escaped |-> FALSE], << >>)

LexerMarks(input) == LexerReading(input).marks

\* The positions of the line where character ch stands as an operator
OperatorAt(input, ch) ==
  { j \in 1..Len(input) : input[j] = ch /\ LexerMarks(input)[j] = "op" }

\* The line cut at the given positions, each piece trimmed, the empty
\* pieces dropped
RECURSIVE CutAt(_, _, _, _, _)
CutAt(input, cuts, i, current, acc) ==
  LET pushed == IF Trim(current) # << >> THEN Append(acc, Trim(current)) ELSE acc
  IN IF i > Len(input) THEN pushed
     ELSE IF i \in cuts THEN CutAt(input, cuts, i + 1, << >>, pushed)
     ELSE CutAt(input, cuts, i + 1, Append(current, input[i]), acc)

\* ------------------------------------------------------------------------
\* Names and message texts
\* ------------------------------------------------------------------------
s_echo == << "e", "c", "h", "o" >>
s_exit == << "e", "x", "i", "t" >>
s_type == << "t", "y", "p", "e" >>
s_pwd == << "p", "w", "d" >>
s_cd == << "c", "d" >>
s_history == << "h", "i", "s", "t", "o", "r", "y" >>
s_ls == << "l", "s" >>
s_cat == << "c", "a", "t" >>
s_dash_r == << "-", "r" >>
s_dash_w == << "-", "w" >>
s_dash_a == << "-", "a" >>
s_tilde == << "~" >>
MSG_IS_A_SHELL_BUILTIN == << " ", "i", "s", " ", "a", " ", "s", "h", "e", "l", "l", " ", "b", "u", "i", "l", "t", "i", "n" >>
MSG_IS == << " ", "i", "s", " " >>
MSG_NOT_FOUND == << ":", " ", "n", "o", "t", " ", "f", "o", "u", "n", "d" >>
MSG_COMMAND_NOT_FOUND == << ":", " ", "c", "o", "m", "m", "a", "n", "d", " ", "n", "o", "t", " ", "f", "o", "u", "n", "d" >>
MSG_EXECUTION_ERROR == << "E", "x", "e", "c", "u", "t", "i", "o", "n", " ", "e", "r", "r", "o", "r", ":", " " >>
MSG_HISTORY == << "h", "i", "s", "t", "o", "r", "y", ":", " " >>
MSG_CD == << "c", "d", ":", " " >>

\* const BUILTINS: the names `type` reports as builtin
BUILTINS == { s_echo, s_exit, s_type, s_pwd, s_history }

\* fn is_builtin: the names a pipeline stage runs in-process
is_builtin_missing_cd(command) ==
  command \in { s_echo, s_type, s_pwd, s_exit, s_history }

is_builtin(command) ==
  command \in { s_echo, s_type, s_pwd, s_cd, s_exit, s_history }

\* ------------------------------------------------------------------------
\* str::parse::<usize>
\* ------------------------------------------------------------------------
DigitValue(c) ==
  CASE c = "0" -> 0 [] c = "1" -> 1 [] c = "2" -> 2 [] c = "3" -> 3
    [] c = "4" -> 4 [] c = "5" -> 5 [] c = "6" -> 6 [] c = "7" -> 7
    [] c = "8" -> 8 [] c = "9" -> 9 [] OTHER -> -1

RECURSIVE DigitsValue(_, _)
DigitsValue(s, acc) ==
  IF s = << >> THEN acc ELSE DigitsValue(Tail(s), acc * 10 + DigitValue(Head(s)))

ParseUsize(s) ==
  LET d == IF s # << >> /\ Head(s) = "+" THEN Tail(s) ELSE s
  IN IF d # << >> /\ \A j \in 1..Len(d) : DigitValue(d[j]) >= 0
     THEN Some(DigitsValue(d, 0))
     ELSE None

\* ------------------------------------------------------------------------
\* parse_command: the Dispatcher
\* ------------------------------------------------------------------------
\* enum CommandAction, as a record of one shape
Action(kind, command, args) ==
  [kind |-> kind, command |-> command, args |-> args,
   commands |-> << >>, limit |-> None, path |-> << >>]

First(args) == IF args = << >> THEN None ELSE Some(args[1])

HistoryAction(args) ==
  LET withPath(kind) ==
        IF Len(args) >= 2
        THEN [Action(kind, s_history, args) EXCEPT !.path = args[2]]
        ELSE Action("Unknown", s_history, << >>)
  IN IF First(args) = Some(s_dash_r) THEN withPath("HistoryRead")
     ELSE IF First(args) = Some(s_dash_w) THEN withPath("HistoryWrite")
     ELSE IF First(args) = Some(s_dash_a) THEN withPath("HistoryAppend")
     ELSE [Action("History", s_history, args) EXCEPT
             !.limit = IF args = << >> THEN None ELSE ParseUsize(args[1])]

\* The (command, args) pairs of the stages of a pipeline line; a stage that
\* lexes to no token is not pushed.
RECURSIVE PipelineCommands(_)
PipelineCommands(parts) ==
  IF parts = << >> THEN << >>
  ELSE LET tokens == parse_args(parse_redirection(Head(parts)).command_part)
       IN (IF tokens # << >>
           THEN << [command |-> tokens[1], args |-> Tail(tokens)] >>
           ELSE << >>) \o PipelineCommands(Tail(parts))

\* The redirection set parse_command computes for each pushed stage of a
\* pipeline line and then drops (the `_` of the destructuring).
RECURSIVE PipelineRedirections(_)
PipelineRedirections(parts) ==
  IF parts = << >> THEN << >>
  ELSE LET r == parse_redirection(Head(parts))
       IN (IF parse_args(r.command_part) # << >>
           THEN << r.redirection >>
           ELSE << >>) \o PipelineRedirections(Tail(parts))

\* Returns [action, redirection].
parse_command(input, all_exe) ==
  LET trimmed == Trim(input)
      pipeline_parts == parse_pipeline(input)
      r == parse_redirection(input)
      tokens == parse_args(r.command_part)
      command == tokens[1]
      args == Tail(tokens)
  IN IF trimmed # << >> /\ Head(trimmed) = "!"
     THEN [action |-> Action("Ai", << >>, SplitWhitespace(Trim(Tail(trimmed)))),
           redirection |-> None]
     ELSE IF Len(pipeline_parts) > 1
     THEN [action |-> [Action("Pipeline", << >>, << >>) EXCEPT
                         !.commands = PipelineCommands(pipeline_parts)],
           redirection |-> None]
     ELSE IF tokens = << >>
     THEN [action |-> Action("Unknown", << >>, << >>),
           redirection |-> r.redirection]
     ELSE [action |->
             IF command = s_exit THEN Action("Exit", command, args)
             ELSE IF command = s_echo THEN Action("Echo", command, args)
             ELSE IF command = s_pwd THEN Action("Pwd", command, args)
             ELSE IF command = s_type THEN Action("Type", command, args)
             ELSE IF command = s_cd THEN Action("Cd", command, args)
             ELSE IF command = s_history THEN HistoryAction(args)
             ELSE IF command \in DOMAIN all_exe
             THEN Action("External", command, args)
             ELSE Action("Unknown", command, << >>),
           redirection |-> r.redirection]

\* ------------------------------------------------------------------------
\* Bounds of the model and the environment the shell runs in
\* ------------------------------------------------------------------------
MaxLines == 1      \* input lines read in one session
MaxStages == 3     \* stages of the longest pipeline typed
MaxFailures == 1   \* pipe()/fork() calls the kernel refuses in one session
MaxText == 4       \* characters of a text handed to a scanner on its own
MaxRedirLines == 2     \* lines of a session of redirections and cd
MaxHistoryLines == 4   \* lines of a session of history commands

s_a == << "a" >>
s_f == << "f" >>
s_g == << "g" >>
s_h == << "h" >>
s_x == << "x" >>
s_b == << "b" >>
s_c == << "c" >>
s_file_f == << "/", "f" >>
s_file_g == << "/", "g" >>
s_file_h == << "/", "h" >>
s_missing == << "/", "q" >>
s_gt == << ">" >>
s_gtgt == << ">", ">" >>
s_2gt == << "2", ">" >>
s_2gtgt == << "2", ">", ">" >>
s_two == << "2" >>
s_root == << "/" >>
s_tmp == << "/", "t" >>
s_dir_a == << "/", "a" >>
s_dir_b == << "/", "b" >>
s_locked == << "/", "p" >>
s_loop == << "/", "l" >>
s_histfile == << "/", "H" >>
s_bar == << " ", "|", " " >>
s_eagain == << "E", "A", "G", "A", "I", "N" >>
s_emfile == << "E", "M", "F", "I", "L", "E" >>
s_enoent == << "E", "N", "O", "E", "N", "T" >>
MSG_NO_SUCH_FILE == << "N", "o", " ", "s", "u", "c", "h", " ", "f", "i", "l", "e", " ", "o", "r", " ", "d", "i", "r", "e", "c", "t", "o", "r", "y" >>
MSG_PERMISSION_DENIED == << "P", "e", "r", "m", "i", "s", "s", "i", "o", "n", " ", "d", "e", "n", "i", "e", "d" >>
MSG_UNKNOWN_ERROR == << "U", "n", "k", "n", "o", "w", "n", " ", "e", "r", "r", "o", "r" >>
MSG_NOT_A_DIRECTORY == << "N", "o", "t", " ", "a", " ", "d", "i", "r", "e", "c", "t", "o", "r", "y" >>
MSG_COLON == << ":", " " >>
MSG_HISTORY_INDENT == << " ", " ", " ", " " >>
MSG_TWO_SPACES == << " ", " " >>

\* Environment variables HISTFILE and HOME (Option<String>)
HISTFILE == Some(s_histfile)
HOME == Some(s_tmp)

\* The directories that exist when the shell starts; those among them the
\* shell's user may not enter; the paths that are a symbolic link to
\* themselves
Dirs == { s_root, s_tmp, s_locked }
LockedDirs == { s_locked }
Loops == { s_loop }

\* The PATH environments a session may start in: the directories in PATH
\* order, each with the executable regular files it holds.
PathEnvs ==
  { << [dir |-> s_dir_b, names |-> { s_ls, s_cat }] >>,
    << [dir |-> s_dir_a,
        names |-> { s_cat, s_echo, s_exit, s_type, s_pwd, s_cd, s_history }],
       [dir |-> s_dir_b, names |-> { s_ls, s_cat, s_echo }] >> }

\* A stage text of every kind, and the lines a user types
Pipe2(a, b) == a \o s_bar \o b
Pipe3(a, b, c) == a \o s_bar \o b \o s_bar \o c

RECURSIVE Cats(_)
Cats(n) == IF n <= 0 THEN << >> ELSE s_cat \o s_bar \o Cats(n - 1)

t_echo_a == s_echo \o << " " >> \o s_a
t_echo_a_to_f == t_echo_a \o << " ", ">", " " >> \o s_f
t_cd_tmp == s_cd \o << " " >> \o s_tmp
t_history_w == s_history \o << " " >> \o s_dash_w \o << " " >> \o s_h
t_type_cd == s_type \o << " " >> \o s_cd
t_cat_err_g == s_cat \o << " ", "2", ">", " " >> \o s_g
t_empty == << "'", "'" >>
t_slash_ls == s_dir_b \o << "/" >> \o s_ls

InputLines ==
  { t_echo_a, t_cd_tmp, s_exit, t_history_w, s_ls, t_type_cd, t_empty,
    Pipe2(t_slash_ls, s_cat),
    Pipe2(t_echo_a_to_f, s_cat),
    Pipe2(t_cd_tmp, s_exit),
    Pipe2(s_ls, t_history_w),
    Pipe2(s_pwd, t_empty),
    Pipe2(s_pwd, s_cat),
    Pipe2(t_echo_a, t_echo_a),
    Pipe3(s_ls, t_type_cd, t_cat_err_g),
    t_echo_a \o s_bar \o Cats(MaxStages - 2) \o s_pwd }

t_history_2 == JoinSpace(<< s_history, s_two >>)
t_history_a_h == JoinSpace(<< s_history, s_dash_a, s_file_h >>)
t_history_a_root == JoinSpace(<< s_history, s_dash_a, s_root >>)
t_echo_a_to_root == JoinSpace(<< s_echo, s_a, s_gt, s_root >>)
t_cd_missing == JoinSpace(<< s_cd, s_missing >>)
t_cd_locked == JoinSpace(<< s_cd, s_locked >>)

\* Lines with several operators for one descriptor
t_echo_f_then_g == JoinSpace(<< s_echo, s_a, s_gt, s_file_f, s_gt, s_file_g >>)
t_echo_f_g_nothing ==
  JoinSpace(<< s_echo, s_a, s_gtgt, s_file_f, s_gtgt, s_file_g, s_gt >>)
t_echo_err_f_then_g ==
  JoinSpace(<< s_echo, s_a, s_2gtgt, s_file_f, s_2gt, s_file_g >>)
t_ls_f_then_g == JoinSpace(<< s_ls, s_gt, s_file_f, s_gt, s_file_g >>)

t_echo_a_app_f == JoinSpace(<< s_echo, s_a, s_gtgt, s_file_f >>)
t_echo_b_app_f == JoinSpace(<< s_echo, s_b, s_gtgt, s_file_f >>)
t_echo_err_app_g == JoinSpace(<< s_echo, s_a, s_2gtgt, s_file_g >>)
t_pwd_err_g == JoinSpace(<< s_pwd, s_2gt, s_file_g >>)
t_cd_err_g == JoinSpace(<< s_cd, s_2gt, s_file_g >>)

\* The single-stage lines of a session of redirections and cd
RedirLines ==
  { JoinSpace(<< s_echo, s_a, s_gt, s_file_f >>),
    t_echo_a_app_f,
    t_echo_b_app_f,
    JoinSpace(<< s_echo, s_a, s_2gt, s_file_g >>),
    t_echo_err_app_g,
    t_echo_f_then_g,
    t_echo_f_g_nothing,
    t_echo_err_f_then_g,
    t_echo_a_to_root,
    JoinSpace(<< s_pwd, s_gt, s_file_f >>),
    JoinSpace(<< s_pwd, s_gtgt, s_file_f >>),
    t_pwd_err_g,
    t_ls_f_then_g,
    t_cd_err_g,
    JoinSpace(<< s_type, s_a, s_2gtgt, s_file_g >>),
    JoinSpace(<< s_history, s_2gt, s_file_g >>),
    JoinSpace(<< s_exit, s_2gt, s_file_g >>),
    JoinSpace(<< s_cd, s_tmp, s_gt, s_file_f >>),
    s_cd,
    JoinSpace(<< s_cd, s_tilde >>),
    JoinSpace(<< s_cd, s_tmp >>),
    t_cd_missing,
    JoinSpace(<< s_cd, s_file_f >>),
    t_cd_locked,
    JoinSpace(<< s_cd, s_loop >>) }

\* The single-stage lines of a session of history commands
HistorySessionLines ==
  { s_a, s_b, s_c,
    s_history,
    t_history_2,
    JoinSpace(<< s_history, s_dash_w, s_file_h >>),
    t_history_a_h,
    t_history_a_root,
    JoinSpace(<< s_history, s_dash_r, s_file_h >>),
    t_echo_a_to_root,
    t_cd_missing,
    s_exit }

\* ------------------------------------------------------------------------
\* The state
\* ------------------------------------------------------------------------
VARIABLES
  path_dirs,           \* the PATH directories and what they hold now
  all_executables,     \* the Path Cache: name -> absolute path
  history,             \* rl.history(): the accepted lines
  last_written_count,  \* history length at the last -w / -a
  cwd,                 \* the shell's working directory
  files,               \* the file system: name -> lines
  stdout,              \* lines written to the terminal, standard output, by this line
  stderr,              \* lines written to the terminal, standard error, by this line
  launched,            \* the external programs started for this line
  pc,                  \* where the shell's main process is
  nlines,              \* lines read so far
  input,               \* the line being executed
  commands,            \* execute_pipeline: the stages
  pipes,               \* execute_pipeline: the (read_fd, write_fd) pairs
  pids,                \* execute_pipeline: the children forked, in order
  close_i,             \* execute_pipeline: pipes the closing loop has done
  waited,              \* the children waitpid has returned for, in order
  parent_fds,          \* the shell's descriptor table: fd -> open file
  fds_before,          \* the descriptors open when the line was read
  closed,              \* close() calls of the shell on each fd, this line
  outcome,             \* how execute_pipeline returned for this line
  failures,            \* pipe()/fork() failures so far
  procs,               \* the child processes: pid -> process
  before,              \* the shell's own state when execute_command was entered
  parent_read,         \* the shell itself has read its standard input for this line
  scan_in,             \* the text handed to a scanner on its own
  scan_out,            \* what that scanner returned
  home,                \* the environment variable HOME (Option<String>)
  live_dirs,           \* the directories that exist now
  pipe_buf             \* the pipes: id -> lines in the buffer

vars == << path_dirs, all_executables, history, last_written_count, cwd, files,
           stdout, stderr, launched, pc, nlines, input, commands, pipes, pids,
           close_i, waited, parent_fds, fds_before, closed, outcome, failures, procs,
           before, parent_read, scan_in, scan_out, home, live_dirs, pipe_buf >>

shell_vars == << history, last_written_count, cwd, files >>
line_vars == << input, commands, pipes, pids, close_i, waited, fds_before,
               closed, outcome, before, parent_read >>
\* What no step of the shell changes: the PATH, the cache built from it at
\* startup, HOME, the directories, and the scanners' own text
env_vars == << path_dirs, all_executables, scan_in, scan_out, home, live_dirs >>

\* ------------------------------------------------------------------------
\* PATH lookups
\* ------------------------------------------------------------------------
JoinPath(dir, name) == dir \o << "/" >> \o name

\* fn find_command_in_path: the live lookup
RECURSIVE FindInDirs(_, _)
FindInDirs(dirs, command) ==
  IF dirs = << >> THEN None
  ELSE IF command \in Head(dirs).names
       THEN Some(JoinPath(Head(dirs).dir, command))
       ELSE FindInDirs(Tail(dirs), command)

find_command_in_path(command) == FindInDirs(path_dirs, command)

\* libc::execvp, also behind Command::new(..).status(): a name holding a
\* `/` is taken as the path of the program, any other name is looked up on
\* the PATH as it is now.
execvp(command) ==
  IF \E j \in 1..Len(command) : command[j] = "/"
  THEN (IF \E j \in 1..Len(path_dirs) : \E n \in path_dirs[j].names :
             JoinPath(path_dirs[j].dir, n) = command
        THEN Some(command) ELSE None)
  ELSE FindInDirs(path_dirs, command)

\* fn get_all_executables: the first directory holding a name wins
get_all_executables(dirs) ==
  LET names == UNION { dirs[j].names : j \in 1..Len(dirs) }
  IN [n \in names |-> FindInDirs(dirs, n)[1]]

\* ------------------------------------------------------------------------
\* Descriptor tables, pipes and processes (the kernel's side of libc::pipe,
\* fork, dup2, close, read, write, waitpid)
\* ------------------------------------------------------------------------
Tty(end) == [pipe |-> 0, end |-> end]
PipeEnd(id, end) == [pipe |-> id, end |-> end]

InitFds == (0 :> Tty("stdin")) @@ (1 :> Tty("stdout")) @@ (2 :> Tty("stderr"))

NoFds == [f \in {} |-> Tty("stdin")]

LowestFree(fds) ==
  CHOOSE n \in 0..Cardinality(DOMAIN fds) :
    n \notin DOMAIN fds /\ \A m \in 0..(n - 1) : m \in DOMAIN fds

dup2(fds, oldfd, newfd) ==
  IF oldfd \in DOMAIN fds
  THEN [f \in DOMAIN fds \cup {newfd} |-> IF f = newfd THEN fds[oldfd] ELSE fds[f]]
  ELSE fds

close(fds, fd) == [f \in DOMAIN fds \ {fd} |-> fds[f]]

RECURSIVE CloseAll(_, _)
CloseAll(fds, pairs) ==
  IF pairs = << >> THEN fds
  ELSE CloseAll(close(close(fds, Head(pairs).read_fd), Head(pairs).write_fd),
                Tail(pairs))

Holds(fds, obj) == \E f \in DOMAIN fds : fds[f] = obj

\* Some process still has the open file obj, given the tables pf and prs.
HasHolderIn(pf, prs, obj) ==
  Holds(pf, obj) \/ \E q \in DOMAIN prs : Holds(prs[q].fds, obj)

HasHolder(obj) == HasHolderIn(parent_fds, procs, obj)

\* A pipe nobody holds any more is gone.
GcBuf(buf, pf, prs) ==
  [id \in { j \in DOMAIN buf :
              HasHolderIn(pf, prs, PipeEnd(j, "r"))
              \/ HasHolderIn(pf, prs, PipeEnd(j, "w")) } |-> buf[id]]

FreshId(used) ==
  CHOOSE n \in 1..(Cardinality(used) + 1) :
    n \notin used /\ \A m \in 1..(n - 1) : m \in used

\* What read(0, ..) does now: "data", "eof", "error", "block", or "tty"
\* when it waits for the terminal.
ReadState(fds) ==
  IF 0 \notin DOMAIN fds THEN "error"
  ELSE IF fds[0].end = "stdin" THEN "tty"
  ELSE IF fds[0].end # "r" THEN "error"
  ELSE IF pipe_buf[fds[0].pipe] # << >> THEN "data"
  ELSE IF ~HasHolder(PipeEnd(fds[0].pipe, "w")) THEN "eof"
  ELSE "block"

\* write(fd, lines) by a process with table fds, on st = [buf, out, err, ok];
\* a pipe without a reader gives EPIPE (SIGPIPE is ignored by the Rust
\* runtime and the disposition is inherited across fork and exec).
EmitTo(fds, fd, lines, st) ==
  IF lines = << >> THEN st
  ELSE IF fd \notin DOMAIN fds THEN [st EXCEPT !.ok = FALSE]
  ELSE IF fds[fd].end = "stdout" THEN [st EXCEPT !.out = @ \o lines]
  ELSE IF fds[fd].end = "stderr" THEN [st EXCEPT !.err = @ \o lines]
  ELSE IF fds[fd].end = "w" /\ HasHolder(PipeEnd(fds[fd].pipe, "r"))
  THEN [st EXCEPT !.buf[fds[fd].pipe] = @ \o lines]
  ELSE [st EXCEPT !.ok = FALSE]

Emit(fds, o) ==
  EmitTo(fds, 2, o.err,
         EmitTo(fds, 1, o.out,
                [buf |-> pipe_buf, out |-> stdout, err |-> stderr, ok |-> TRUE]))

\* ------------------------------------------------------------------------
\* Built-in bodies
\* ------------------------------------------------------------------------
\* fn handle_type_logic, and the `type` arm of execute_builtin_in_child
TypeOutput(target) ==
  IF target \in BUILTINS
  THEN [out |-> << target \o MSG_IS_A_SHELL_BUILTIN >>, err |-> << >>]
  ELSE IF find_command_in_path(target) # None
  THEN [out |-> << target \o MSG_IS \o find_command_in_path(target)[1] >>,
        err |-> << >>]
  ELSE [out |-> << >>, err |-> << target \o MSG_NOT_FOUND >>]

NoOutput == [out |-> << >>, err |-> << >>]

should_consume_stdin_type_only(command) == command = s_type

should_consume_stdin(command) == command \in { s_type, s_pwd }

\* The match of execute_builtin_in_child: what the stage prints.  Every
\* other name (exit, cd, history) takes the `_ => {}` arm.
BuiltinOutput(command, args, dir) ==
  IF command = s_echo THEN [out |-> << JoinSpace(args) >>, err |-> << >>]
  ELSE IF command = s_type
  THEN (IF args # << >> THEN TypeOutput(args[1]) ELSE NoOutput)
  ELSE IF command = s_pwd
  THEN (IF dir \in live_dirs THEN [out |-> << dir >>, err |-> << >>]
        ELSE NoOutput)
  ELSE NoOutput

\* An external program of the environment: `cat` copies standard input to
\* standard output until end of file, every other program prints one line.
ExtReadsStdin(name) == name = s_cat
ExtLine(name) == << s_x >>

\* ------------------------------------------------------------------------
\* Files (File::create, OpenOptions::append, writeln!, fs::read_to_string)
\* ------------------------------------------------------------------------
OpenFails(f) == f \in live_dirs \cup Loops

\* The file system after opening f for writing: created if missing,
\* truncated unless opened for append.
OpenForWriteAlwaysTruncates(fs, f, append) ==
  IF OpenFails(f) THEN fs
  ELSE [g \in DOMAIN fs \cup {f} |-> IF g = f THEN << >> ELSE fs[g]]

OpenForWrite(fs, f, append) ==
  IF OpenFails(f) THEN fs
  ELSE IF append /\ f \in DOMAIN fs THEN fs
  ELSE [g \in DOMAIN fs \cup {f} |-> IF g = f THEN << >> ELSE fs[g]]

WriteLines(fs, f, lines) ==
  IF f \in DOMAIN fs THEN [fs EXCEPT ![f] = @ \o lines] ELSE fs

\* content.lines() with trim and the empty lines skipped
RECURSIVE NonEmptyTrimmed(_)
NonEmptyTrimmed(lines) ==
  IF lines = << >> THEN << >>
  ELSE (IF Trim(Head(lines)) # << >> THEN << Trim(Head(lines)) >> ELSE << >>)
       \o NonEmptyTrimmed(Tail(lines))

\* fn save_history_to_histfile
save_history_appending(fs, hist) ==
  IF HISTFILE = None THEN fs
  ELSE WriteLines(OpenForWrite(fs, HISTFILE[1], TRUE), HISTFILE[1], hist)

save_history_to_histfile(fs, hist) ==
  IF HISTFILE = None THEN fs
  ELSE WriteLines(OpenForWrite(fs, HISTFILE[1], FALSE), HISTFILE[1], hist)

DigitChar(d) == << "0", "1", "2", "3", "4", "5", "6", "7", "8", "9" >>[d + 1]

RECURSIVE ToDigits(_)
ToDigits(n) ==
  IF n < 10 THEN << DigitChar(n) >>
  ELSE ToDigits(n \div 10) \o << DigitChar(n % 10) >>

\* ------------------------------------------------------------------------
\* execute_command, the single-stage arms
\* ------------------------------------------------------------------------
\* The redirection files echo/pwd open, then the line they print.
EchoLikeStdoutTargetOnly(sh, output, redirection) ==
  LET redir == IF redirection = None THEN None ELSE redirection[1]
  IN IF redirection # None /\ redir.stdout_file # None
     THEN [sh EXCEPT !.files =
             IF OpenFails(redir.stdout_file[1]) THEN @
             ELSE WriteLines(OpenForWrite(@, redir.stdout_file[1],
                                          redir.stdout_append),
                             redir.stdout_file[1], << output >>)]
     ELSE [sh EXCEPT !.out = @ \o << output >>]

EchoLike(sh, output, redirection) ==
  LET redir == IF redirection = None THEN None ELSE redirection[1]
      fs1 == IF redirection # None /\ redir.stderr_file # None
             THEN OpenForWrite(sh.files, redir.stderr_file[1], redir.stderr_append)
             ELSE sh.files
  IN IF redirection # None /\ redir.stdout_file # None
     THEN [sh EXCEPT !.files =
             IF OpenFails(redir.stdout_file[1]) THEN fs1
             ELSE WriteLines(OpenForWrite(fs1, redir.stdout_file[1],
                                          redir.stdout_append),
                             redir.stdout_file[1], << output >>)]
     ELSE [sh EXCEPT !.files = fs1, !.out = @ \o << output >>]

\* Command::new(command).args(args).status() with the redirection files
\* attached: the program is looked up on the PATH as it is now.
ExternalRun(sh, command, redirection) ==
  LET redir == IF redirection = None THEN None ELSE redirection[1]
      toFile == redirection # None /\ redir.stdout_file # None
      fs1 == IF toFile
             THEN OpenForWrite(sh.files, redir.stdout_file[1], redir.stdout_append)
             ELSE sh.files
      fs2 == IF redirection # None /\ redir.stderr_file # None
             THEN OpenForWrite(fs1, redir.stderr_file[1], redir.stderr_append)
             ELSE fs1
      found == execvp(command)
      lines == IF found = None \/ ExtReadsStdin(command) THEN << >>
               ELSE ExtLine(command)
  IN [sh EXCEPT
        !.launched = IF found = None THEN @
                     ELSE @ \cup { [command |-> command, path |-> found[1]] },
        !.files = IF toFile /\ ~OpenFails(redir.stdout_file[1])
                  THEN WriteLines(fs2, redir.stdout_file[1], lines) ELSE fs2,
        !.out = IF toFile /\ ~OpenFails(redir.stdout_file[1]) THEN @ ELSE @ \o lines]

\* env::set_current_dir: "Ok", or the io::ErrorKind of the failure
set_current_dir(fs, path) ==
  IF path \in live_dirs
  THEN (IF path \in LockedDirs THEN "PermissionDenied" ELSE "Ok")
  ELSE IF path \in DOMAIN fs THEN "NotADirectory"
  ELSE IF path \in Loops THEN "FilesystemLoop"
  ELSE "NotFound"

\* `match e.kind()` of the Cd arm
CdErrorMsgNotFoundOnly(kind) == MSG_NO_SUCH_FILE

CdErrorMsg(kind) ==
  IF kind = "NotFound" THEN MSG_NO_SUCH_FILE
  ELSE IF kind = "PermissionDenied" THEN MSG_PERMISSION_DENIED
  ELSE IF kind = "NotADirectory" THEN MSG_NOT_A_DIRECTORY
  ELSE MSG_UNKNOWN_ERROR

CdRun(sh, args) ==
  LET arg_str == IF args = << >> THEN << >> ELSE args[1]
      target_path == IF arg_str = << >> \/ arg_str = s_tilde
                     THEN (IF home # None THEN home[1] ELSE s_root)
                     ELSE arg_str
      e == set_current_dir(sh.files, target_path)
  IN IF e = "Ok" THEN [sh EXCEPT !.cwd = target_path]
     ELSE [sh EXCEPT !.err = @ \o
             << MSG_CD \o target_path \o MSG_COLON \o CdErrorMsg(e) >>]

RECURSIVE HistoryLines(_, _)
HistoryLines(items, start_index) ==
  IF items = << >> THEN << >>
  ELSE << MSG_HISTORY_INDENT \o ToDigits(start_index + 1) \o MSG_TWO_SPACES
          \o Head(items) >>
       \o HistoryLines(Tail(items), start_index + 1)

HistoryShow(sh, limit) ==
  LET start == IF limit = None THEN 0
               ELSE IF Len(sh.history) >= limit[1] THEN Len(sh.history) - limit[1]
               ELSE 0
  IN [sh EXCEPT !.out = @ \o
        HistoryLines(SubSeq(sh.history, start + 1, Len(sh.history)), start)]

HistoryReadRun(sh, path) ==
  IF path \in DOMAIN sh.files
  THEN [sh EXCEPT !.history = @ \o NonEmptyTrimmed(sh.files[path])]
  ELSE [sh EXCEPT !.err = @ \o << MSG_HISTORY \o path \o MSG_COLON \o s_enoent >>]

HistoryWriteRunCountsAhead(sh, path) ==
  IF OpenFails(path)
  THEN [sh EXCEPT !.err = @ \o << MSG_HISTORY \o path \o MSG_COLON \o s_enoent >>]
  ELSE [sh EXCEPT !.files = WriteLines(OpenForWrite(@, path, FALSE), path, sh.history),
                  !.last_written_count = Len(sh.history) + 1]

HistoryWriteRun(sh, path) ==
  IF OpenFails(path)
  THEN [sh EXCEPT !.err = @ \o << MSG_HISTORY \o path \o MSG_COLON \o s_enoent >>]
  ELSE [sh EXCEPT !.files = WriteLines(OpenForWrite(@, path, FALSE), path, sh.history),
                  !.last_written_count = Len(sh.history)]

HistoryAppendRunWholeHistory(sh, path) ==
  IF OpenFails(path)
  THEN [sh EXCEPT !.err = @ \o << MSG_HISTORY \o path \o MSG_COLON \o s_enoent >>]
  ELSE [sh EXCEPT !.files = WriteLines(OpenForWrite(@, path, TRUE), path, sh.history),
                  !.last_written_count = Len(sh.history)]

HistoryAppendRun(sh, path) ==
  IF OpenFails(path)
  THEN [sh EXCEPT !.err = @ \o << MSG_HISTORY \o path \o MSG_COLON \o s_enoent >>]
  ELSE IF sh.last_written_count > Len(sh.history)
  THEN [sh EXCEPT !.files = OpenForWrite(@, path, TRUE), !.panicked = TRUE]
  ELSE [sh EXCEPT !.files = WriteLines(OpenForWrite(@, path, TRUE), path,
                                      SubSeq(sh.history, sh.last_written_count + 1,
                                             Len(sh.history))),
                  !.last_written_count = Len(sh.history)]

\* The match of execute_command for every action but Pipeline; sh is the
\* shell's state with the line already in the history.
ExecSingle(sh, action, redirection) ==
  LET k == action.kind IN
  IF k = "Exit"
  THEN [sh EXCEPT !.files = save_history_to_histfile(@, sh.history),
                  !.exited = TRUE]
  ELSE IF k = "Echo" THEN EchoLike(sh, JoinSpace(action.args), redirection)
  ELSE IF k = "Pwd"
  THEN (IF sh.cwd \in live_dirs THEN EchoLike(sh, sh.cwd, redirection)
        ELSE [sh EXCEPT !.err = @ \o << MSG_EXECUTION_ERROR \o s_enoent >>])
  ELSE IF k = "Type"
  THEN (IF action.args # << >> /\ action.args[1] # << >>
        THEN [sh EXCEPT !.out = @ \o TypeOutput(action.args[1]).out,
                        !.err = @ \o TypeOutput(action.args[1]).err]
        ELSE sh)
  ELSE IF k = "External" THEN ExternalRun(sh, action.command, redirection)
  ELSE IF k = "Cd" THEN CdRun(sh, action.args)
  ELSE IF k = "Unknown"
  THEN [sh EXCEPT !.err = @ \o << action.command \o MSG_COMMAND_NOT_FOUND >>]
  ELSE IF k = "History" THEN HistoryShow(sh, action.limit)
  ELSE IF k = "HistoryRead" THEN HistoryReadRun(sh, action.path)
  ELSE IF k = "HistoryWrite" THEN HistoryWriteRun(sh, action.path)
  ELSE IF k = "HistoryAppend" THEN HistoryAppendRun(sh, action.path)
  ELSE sh

\* The shell's own state, as the record the executors work on
Shell(hist) ==
  [history |-> hist, last_written_count |-> last_written_count, cwd |-> cwd,
   files |-> files, out |-> << >>, err |-> << >>, launched |-> {},
   exited |-> FALSE, panicked |-> FALSE]

\* A stage that would run `history -w <path>` as execute_command does
BuiltinEffectHistoryWrite(command, args, sh) ==
  IF command = s_history /\ Len(args) = 2 /\ args[1] = s_dash_w
  THEN HistoryWriteRun(sh, args[2])
  ELSE sh

\* What execute_builtin_in_child does to the shell's own state when it runs
\* a stage: nothing, for every name.
BuiltinEffect(command, args, sh) == sh

\* No scanner has been run on scan_in yet
ScanIdle == [op |-> "none", value |-> << >>]

\* ------------------------------------------------------------------------
\* Initial state: main() up to the loop
\* ------------------------------------------------------------------------
Init ==
  /\ path_dirs \in PathEnvs
  /\ all_executables = get_all_executables(path_dirs)
  /\ history = << >>
  /\ last_written_count = 0
  /\ cwd = s_root
  /\ files = [f \in {} |-> << >>]
  /\ stdout = << >>
  /\ stderr = << >>
  /\ launched = {}
  /\ pc = "readline"
  /\ nlines = 0
  /\ input = << >>
  /\ commands = << >>
  /\ pipes = << >>
  /\ pids = << >>
  /\ close_i = 0
  /\ waited = << >>
  /\ parent_fds = InitFds
  /\ fds_before = DOMAIN InitFds
  /\ closed = [f \in {} |-> 0]
  /\ outcome = "none"
  /\ failures = 0
  /\ procs = [q \in {} |-> 0]
  /\ before = [history |-> << >>, last_written_count |-> 0, cwd |-> s_root,
               files |-> [f \in {} |-> << >>]]
  /\ parent_read = FALSE
  /\ scan_in = << >>
  /\ scan_out = ScanIdle
  /\ home = HOME
  /\ live_dirs = Dirs
  /\ pipe_buf = [j \in {} |-> << >>]

\* ------------------------------------------------------------------------
\* The main loop: rl.readline, add_history_entry, execute_command
\* ------------------------------------------------------------------------
\* Where execute_pipeline starts for the stages cmds.
PipelineEntry(cmds) ==
  IF cmds = << >> THEN "readline"
  ELSE IF Len(cmds) = 1
  THEN (IF is_builtin(cmds[1].command) /\ should_consume_stdin(cmds[1].command)
        THEN "single_drain" ELSE "single_body")
  ELSE "pipe"

\* The state after execute_command: sh is what the single-stage arms made
\* of the shell, cmds the stages handed to execute_pipeline.
Executed(trimmed, hist, sh, isPipe, cmds) ==
  /\ nlines' = nlines + 1
  /\ before' = [history |-> hist, last_written_count |-> last_written_count,
                cwd |-> cwd, files |-> files]
  /\ parent_read' = FALSE
  /\ input' = trimmed
  /\ history' = sh.history
  /\ last_written_count' = sh.last_written_count
  /\ cwd' = sh.cwd
  /\ files' = sh.files
  /\ stdout' = sh.out
  /\ stderr' = sh.err
  /\ launched' = sh.launched
  /\ commands' = IF isPipe THEN cmds ELSE << >>
  /\ pc' = IF sh.panicked THEN "panicked"
           ELSE IF sh.exited THEN "exited"
           ELSE IF isPipe THEN PipelineEntry(cmds)
           ELSE "readline"
  /\ parent_fds' = IF sh.exited THEN NoFds ELSE parent_fds
  /\ pipe_buf' = IF sh.exited THEN GcBuf(pipe_buf, NoFds, procs) ELSE pipe_buf
  /\ outcome' = IF isPipe /\ cmds # << >> THEN "none" ELSE "ok"
  /\ pipes' = << >>
  /\ pids' = << >>
  /\ close_i' = 0
  /\ waited' = << >>
  /\ fds_before' = DOMAIN parent_fds
  /\ closed' = [f \in {} |-> 0]
  /\ UNCHANGED << env_vars, failures, procs >>

execute_command(trimmed, hist, pr) ==
  Executed(trimmed, hist, ExecSingle(Shell(hist), pr.action, pr.redirection),
           pr.action.kind = "Pipeline", pr.action.commands)

AcceptLine(trimmed) ==
  /\ trimmed # << >>
  /\ execute_command(trimmed, Append(history, trimmed),
                     parse_command(trimmed, all_executables))

ReadLine(line) ==
  /\ pc = "readline"
  /\ nlines < MaxLines
  /\ AcceptLine(Trim(line))

\* Err(ReadlineError::Eof): save the history and leave the loop
ReadEof ==
  /\ pc = "readline"
  /\ files' = save_history_to_histfile(files, history)
  /\ pc' = "ended"
  /\ parent_fds' = NoFds
  /\ pipe_buf' = GcBuf(pipe_buf, NoFds, procs)
  /\ UNCHANGED << env_vars, history, last_written_count, cwd, stdout, stderr,
                  launched, nlines, line_vars, failures, procs >>

\* execute_pipeline with one command: the stage runs in the shell itself.
\* The drain of type/pwd reads the shell's own standard input, the terminal,
\* and ends when the user sends end of file.
ParentDrainEof ==
  /\ pc = "single_drain"
  /\ pc' = "single_body"
  /\ parent_read' = TRUE
  /\ UNCHANGED << env_vars, shell_vars, stdout, stderr, launched, nlines, input,
                  commands, pipes, pids, close_i, waited, fds_before, closed,
                  outcome, before, parent_fds, failures, procs, pipe_buf >>

ParentSingle ==
  /\ pc = "single_body"
  /\ LET c == commands[1]
         sh0 == Shell(history)
         sh == IF is_builtin(c.command)
               THEN BuiltinEffect(c.command, c.args, sh0)
               ELSE ExternalRun(sh0, c.command, None)
         o == IF is_builtin(c.command) THEN BuiltinOutput(c.command, c.args, cwd)
              ELSE [out |-> sh.out, err |-> sh.err]
     IN /\ history' = sh.history
        /\ last_written_count' = sh.last_written_count
        /\ cwd' = sh.cwd
        /\ files' = sh.files
        /\ stdout' = stdout \o o.out
        /\ stderr' = stderr \o o.err
        /\ launched' = launched \cup sh.launched
        /\ pc' = IF sh.exited THEN "exited" ELSE "readline"
        /\ parent_fds' = IF sh.exited THEN NoFds ELSE parent_fds
        /\ pipe_buf' = IF sh.exited THEN GcBuf(pipe_buf, NoFds, procs) ELSE pipe_buf
  /\ outcome' = "ok"
  /\ UNCHANGED << env_vars, nlines, input, commands, pipes, pids, close_i,
                  waited, fds_before, closed, failures, procs, before,
                  parent_read >>

\* ------------------------------------------------------------------------
\* execute_pipeline, the parent's side
\* ------------------------------------------------------------------------
\* `for _ in 0..commands.len() - 1`: the pipes to create
PipeCountOneTooMany(cmds) == Len(cmds)

PipeCount(cmds) == Len(cmds) - 1

\* `for (read_fd, write_fd) in &pipes` of the parent: the pipes it closes
ParentCloseList(pp) == pp

\* The body of that loop: libc::close on both ends
ParentCloseFdsReadEndOnly(pr) == << pr.read_fd >>

ParentCloseFds(pr) == << pr.read_fd, pr.write_fd >>

\* `for pid in pids`: the children waited for, in this order
WaitListReversed(pp) == [j \in 1..Len(pp) |-> pp[Len(pp) + 1 - j]]

WaitList(pp) == pp

\* The early `return Err(io::Error::last_os_error())`, reported by main
ErrReturn(reason) ==
  /\ failures < MaxFailures
  /\ failures' = failures + 1
  /\ stderr' = stderr \o << MSG_EXECUTION_ERROR \o reason >>
  /\ pc' = "readline"
  /\ outcome' = "err"

\* libc::pipe succeeds: the two lowest free descriptors
PipeCreate ==
  /\ pc = "pipe"
  /\ LET r == LowestFree(parent_fds)
         id == FreshId(DOMAIN pipe_buf)
         fds1 == (r :> PipeEnd(id, "r")) @@ parent_fds
         w == LowestFree(fds1)
     IN /\ parent_fds' = (w :> PipeEnd(id, "w")) @@ fds1
        /\ pipes' = Append(pipes, [read_fd |-> r, write_fd |-> w])
        /\ pipe_buf' = (id :> << >>) @@ pipe_buf
  /\ pc' = IF Len(pipes') >= PipeCount(commands) THEN "fork" ELSE "pipe"
  /\ UNCHANGED << env_vars, shell_vars, stdout, stderr, launched, nlines, input,
                  commands, pids, close_i, waited, fds_before, closed, outcome,
                  failures, procs, before, parent_read >>

\* libc::pipe fails
PipeFail ==
  /\ pc = "pipe"
  /\ ErrReturn(s_emfile)
  /\ UNCHANGED << env_vars, shell_vars, stdout, launched, nlines, input,
                  commands, pipes, pids, close_i, waited, parent_fds,
                  fds_before, closed, procs, before, parent_read, pipe_buf >>

\* libc::fork succeeds: the child starts with a copy of the descriptor table
Fork ==
  /\ pc = "fork"
  /\ LET i == Len(pids)
         pid == FreshId(DOMAIN procs)
         child == [stage |-> i, n |-> Len(commands),
                   command |-> commands[i + 1].command,
                   args |-> commands[i + 1].args,
                   pipes |-> pipes, fds |-> parent_fds,
                   inherited |-> parent_fds, line |-> nlines,
                   cwd |-> cwd,
                   pc |-> "wire", status |-> 0, program |-> << >>,
                   drained |-> FALSE, has_read |-> FALSE, wrote |-> FALSE]
     IN /\ procs' = (pid :> child) @@ procs
        /\ pids' = Append(pids, pid)
  /\ pc' = IF Len(pids') = Len(commands) THEN "close" ELSE "fork"
  /\ UNCHANGED << env_vars, shell_vars, stdout, stderr, launched, nlines, input,
                  commands, pipes, close_i, waited, parent_fds, fds_before,
                  closed, outcome, failures, before, parent_read, pipe_buf >>

\* libc::fork fails
ForkFail ==
  /\ pc = "fork"
  /\ ErrReturn(s_eagain)
  /\ UNCHANGED << env_vars, shell_vars, stdout, launched, nlines, input,
                  commands, pipes, pids, close_i, waited, parent_fds,
                  fds_before, closed, procs, before, parent_read, pipe_buf >>

Bump(cnt, fd) ==
  [f \in DOMAIN cnt \cup {fd} |->
     (IF f \in DOMAIN cnt THEN cnt[f] ELSE 0) + (IF f = fd THEN 1 ELSE 0)]

RECURSIVE BumpEach(_, _)
BumpEach(cnt, fdseq) ==
  IF fdseq = << >> THEN cnt ELSE BumpEach(Bump(cnt, Head(fdseq)), Tail(fdseq))

RECURSIVE CloseEach(_, _)
CloseEach(fds, fdseq) ==
  IF fdseq = << >> THEN fds ELSE CloseEach(close(fds, Head(fdseq)), Tail(fdseq))

\* One turn of the parent's closing loop: both ends of one pipe
ParentClose ==
  /\ pc = "close"
  /\ LET list == ParentCloseList(pipes)
         pr == list[close_i + 1]
     IN /\ parent_fds' = CloseEach(parent_fds, ParentCloseFds(pr))
        /\ closed' = BumpEach(closed, ParentCloseFds(pr))
        /\ close_i' = close_i + 1
        /\ pc' = IF close_i + 1 >= Len(list) THEN "wait" ELSE "close"
        /\ pipe_buf' = GcBuf(pipe_buf, parent_fds', procs)
  /\ UNCHANGED << env_vars, shell_vars, stdout, stderr, launched, nlines, input,
                  commands, pipes, pids, waited, fds_before, outcome, failures,
                  procs, before, parent_read >>

\* libc::waitpid(pid) returns once that child has exited, and reaps it
ParentWait ==
  /\ pc = "wait"
  /\ LET pid == WaitList(pids)[Len(waited) + 1]
     IN /\ pid \in DOMAIN procs
        /\ procs[pid].pc = "zombie"
        /\ procs' = [q \in DOMAIN procs \ {pid} |-> procs[q]]
        /\ waited' = Append(waited, pid)
  /\ pc' = IF Len(waited') = Len(pids) THEN "readline" ELSE "wait"
  /\ outcome' = IF Len(waited') = Len(pids) THEN "ok" ELSE outcome
  /\ UNCHANGED << env_vars, shell_vars, stdout, stderr, launched, nlines, input,
                  commands, pipes, pids, close_i, parent_fds, fds_before,
                  closed, failures, before, parent_read, pipe_buf >>

\* ------------------------------------------------------------------------
\* execute_pipeline, the child's side (the `pid == 0` branch)
\* ------------------------------------------------------------------------
ProcIds == 1..(MaxLines * (MaxStages + 1))

\* `for (read_fd, write_fd) in &pipes` of the child: the pipes it closes
ChildCloseListOwnOnly(pp, i) ==
  SubSeq(pp, IF i > 0 THEN i ELSE 1, IF i + 1 <= Len(pp) THEN i + 1 ELSE Len(pp))

ChildCloseList(pp, i) == pp

\* dup2 of the neighbouring pipe ends onto fd 0 and fd 1, then the closes
WireFds(fds, i, n, pp) ==
  LET f1 == IF i > 0 THEN dup2(fds, pp[i].read_fd, 0) ELSE fds
      f2 == IF i < n - 1 THEN dup2(f1, pp[i + 1].write_fd, 1) ELSE f1
  IN CloseAll(f2, ChildCloseList(pp, i))

Exited(proc, status) ==
  [proc EXCEPT !.pc = "zombie", !.status = status, !.fds = NoFds]

child_frame == << env_vars, history, last_written_count, cwd, nlines, line_vars,
                  pc, parent_fds, failures >>

ChildWire(pid) ==
  /\ pid \in DOMAIN procs
  /\ procs[pid].pc = "wire"
  /\ LET c == procs[pid]
     IN procs' = [procs EXCEPT
          ![pid].fds = WireFds(c.fds, c.stage, c.n, c.pipes),
          ![pid].pc = IF is_builtin(c.command) THEN "builtin" ELSE "exec"]
  /\ pipe_buf' = GcBuf(pipe_buf, parent_fds, procs')
  /\ UNCHANGED << child_frame, files, stdout, stderr, launched >>

\* One libc::read(0, ..) of the draining loop of type/pwd
ChildDrain(pid) ==
  /\ pid \in DOMAIN procs
  /\ LET c == procs[pid]
         rs == ReadState(c.fds)
     IN /\ c.pc = "builtin"
        /\ should_consume_stdin(c.command)
        /\ ~c.drained
        /\ rs \in {"data", "eof", "error"}
        /\ procs' = [procs EXCEPT ![pid].has_read = TRUE,
                                  ![pid].drained = (rs # "data")]
        /\ pipe_buf' = IF rs = "data"
                       THEN [pipe_buf EXCEPT ![c.fds[0].pipe] = << >>]
                       ELSE pipe_buf
  /\ UNCHANGED << child_frame, files, stdout, stderr, launched >>

\* The terminal delivers end of file to a child reading it
ChildTtyEof(pid) ==
  /\ pid \in DOMAIN procs
  /\ LET c == procs[pid]
     IN /\ \/ c.pc = "builtin" /\ should_consume_stdin(c.command) /\ ~c.drained
           \/ c.pc = "ext" /\ ExtReadsStdin(c.command) /\ ~c.drained
        /\ ReadState(c.fds) = "tty"
        /\ procs' = [procs EXCEPT ![pid].has_read = TRUE, ![pid].drained = TRUE]
  /\ UNCHANGED << child_frame, files, stdout, stderr, launched, pipe_buf >>

\* The match of execute_builtin_in_child, then std::process::exit(0); a
\* failed println! panics and the child ends with status 101.
ChildBody(pid) ==
  /\ pid \in DOMAIN procs
  /\ LET c == procs[pid]
         o == BuiltinOutput(c.command, c.args, c.cwd)
         st == Emit(c.fds, o)
         sh == BuiltinEffect(c.command, c.args, [Shell(history) EXCEPT !.cwd = c.cwd])
     IN /\ c.pc = "builtin"
        /\ should_consume_stdin(c.command) => c.drained
        /\ procs' = [procs EXCEPT
             ![pid] = [Exited(c, IF st.ok THEN 0 ELSE 101) EXCEPT
                         !.wrote = (o.out # << >> \/ o.err # << >>)]]
        /\ stdout' = st.out
        /\ stderr' = st.err
        /\ files' = sh.files
        /\ pipe_buf' = GcBuf(st.buf, parent_fds, procs')
  /\ UNCHANGED << child_frame, launched >>

\* libc::execvp: the program is looked up on the PATH as it is now; if it
\* returns, "<name>: command not found" and exit(127).
ChildExec(pid) ==
  /\ pid \in DOMAIN procs
  /\ LET c == procs[pid]
         found == execvp(c.command)
         st == Emit(c.fds, [out |-> << >>,
                            err |-> << c.command \o MSG_COMMAND_NOT_FOUND >>])
     IN /\ c.pc = "exec"
        /\ IF found # None
           THEN /\ procs' = [procs EXCEPT ![pid].pc = "ext",
                                          ![pid].program = found[1]]
                /\ launched' = launched \cup
                                 { [command |-> c.command, path |-> found[1]] }
                /\ UNCHANGED << stdout, stderr, pipe_buf >>
           ELSE /\ procs' = [procs EXCEPT ![pid] = Exited(c, 127)]
                /\ stdout' = st.out
                /\ stderr' = st.err
                /\ pipe_buf' = GcBuf(st.buf, parent_fds, procs')
                /\ UNCHANGED launched
  /\ UNCHANGED << child_frame, files >>

\* A step of an external program
ExtStep(pid) ==
  /\ pid \in DOMAIN procs
  /\ LET c == procs[pid]
         rs == ReadState(c.fds)
         reads == ExtReadsStdin(c.command) /\ ~c.drained
         lines == IF ~ExtReadsStdin(c.command) THEN ExtLine(c.command)
                  ELSE IF reads /\ rs = "data" THEN pipe_buf[c.fds[0].pipe]
                  ELSE << >>
         st == Emit(c.fds, [out |-> lines, err |-> << >>])
         buf1 == IF reads /\ rs = "data"
                 THEN [st.buf EXCEPT ![c.fds[0].pipe] = << >>] ELSE st.buf
         ends == ~st.ok \/ ~reads \/ rs \in {"eof", "error"}
     IN /\ c.pc = "ext"
        /\ reads => rs \in {"data", "eof", "error"}
        /\ procs' = [procs EXCEPT
             ![pid] = IF ends
                      THEN [Exited(c, IF st.ok THEN 0 ELSE 1) EXCEPT
                              !.has_read = c.has_read \/ reads]
                      ELSE [c EXCEPT !.has_read = TRUE]]
        /\ stdout' = st.out
        /\ stderr' = st.err
        /\ pipe_buf' = GcBuf(buf1, parent_fds, procs')
  /\ UNCHANGED << child_frame, files, launched >>

\* ------------------------------------------------------------------------
\* The specification
\* ------------------------------------------------------------------------
ParentStep ==
  PipeCreate \/ PipeFail \/ Fork \/ ForkFail \/ ParentClose \/ ParentWait
  \/ ParentSingle

ChildStep(pid) ==
  ChildWire(pid) \/ ChildDrain(pid) \/ ChildBody(pid) \/ ChildExec(pid)
  \/ ExtStep(pid)

Next ==
  \/ \E line \in InputLines : ReadLine(line)
  \/ ReadEof
  \/ ParentDrainEof
  \/ PipeCreate
  \/ PipeFail
  \/ Fork
  \/ ForkFail
  \/ ParentClose
  \/ ParentWait
  \/ ParentSingle
  \/ \E pid \in ProcIds : ChildWire(pid)
  \/ \E pid \in ProcIds : ChildDrain(pid)
  \/ \E pid \in ProcIds : ChildTtyEof(pid)
  \/ \E pid \in ProcIds : ChildBody(pid)
  \/ \E pid \in ProcIds : ChildExec(pid)
  \/ \E pid \in ProcIds : ExtStep(pid)

Spec == Init /\ [][Next]_vars

\* The kernel schedules every runnable process: the shell inside
\* execute_pipeline and every child.  Nothing obliges the user to type a
\* line or to send end of file.
FairSpec ==
  /\ Spec
  /\ WF_vars(ParentStep)
  /\ \A pid \in ProcIds : WF_vars(ChildStep(pid))

\* ------------------------------------------------------------------------
\* Sessions of single-stage lines
\* ------------------------------------------------------------------------
\* main() up to the loop, in an environment with the files fs and HOME hm:
\* the history is loaded from HISTFILE.
load_history(fs) ==
  IF HISTFILE # None /\ HISTFILE[1] \in DOMAIN fs
  THEN NonEmptyTrimmed(fs[HISTFILE[1]]) ELSE << >>

SessionStart(fs, hm) ==
  /\ path_dirs = << [dir |-> s_dir_b, names |-> { s_ls, s_cat }] >>
  /\ all_executables = get_all_executables(path_dirs)
  /\ history = load_history(fs)
  /\ last_written_count = 0
  /\ cwd = s_root
  /\ files = fs
  /\ stdout = << >>
  /\ stderr = << >>
  /\ launched = {}
  /\ pc = "readline"
  /\ nlines = 0
  /\ input = << >>
  /\ commands = << >>
  /\ pipes = << >>
  /\ pids = << >>
  /\ close_i = 0
  /\ waited = << >>
  /\ parent_fds = InitFds
  /\ fds_before = DOMAIN InitFds
  /\ closed = [f \in {} |-> 0]
  /\ outcome = "none"
  /\ failures = 0
  /\ procs = [q \in {} |-> 0]
  /\ before = [history |-> load_history(fs), last_written_count |-> 0,
               cwd |-> s_root, files |-> fs]
  /\ parent_read = FALSE
  /\ scan_in = << >>
  /\ scan_out = ScanIdle
  /\ home = hm
  /\ live_dirs = Dirs
  /\ pipe_buf = [j \in {} |-> << >>]

NoFiles == [f \in {} |-> << >>]

\* Redirections and cd: HOME set or unset, the file /f there or not
RedirInit ==
  \E hm \in { None, HOME } :
    \E fs \in { NoFiles, [f \in { s_file_f } |-> << s_x >>] } :
      SessionStart(fs, hm)

RedirLine(line) ==
  /\ pc = "readline"
  /\ nlines < MaxRedirLines
  /\ AcceptLine(Trim(line))

\* Another process removes the directory /t, the shell's working directory
\* or not
RemoveDir ==
  /\ pc = "readline"
  /\ s_tmp \in live_dirs
  /\ live_dirs' = live_dirs \ { s_tmp }
  /\ UNCHANGED << path_dirs, all_executables, scan_in, scan_out, home,
                  shell_vars, stdout, stderr, launched, pc, nlines, line_vars,
                  parent_fds, failures, procs, pipe_buf >>

RedirNext ==
  \/ \E line \in RedirLines : RedirLine(line)
  \/ ReadEof
  \/ RemoveDir

RedirSpec == RedirInit /\ [][RedirNext]_vars

\* History commands: HISTFILE missing, or left by an earlier session
HistoryInit ==
  \E fs \in { NoFiles,
               [f \in { s_histfile } |-> << s_c, << " " >>, << " ", "b" >> >>] } :
    SessionStart(fs, HOME)

HistoryLine(line) ==
  /\ pc = "readline"
  /\ nlines < MaxHistoryLines
  /\ AcceptLine(Trim(line))

HistoryNext ==
  \/ \E line \in HistorySessionLines : HistoryLine(line)
  \/ ReadEof

HistorySpec == HistoryInit /\ [][HistoryNext]_vars

\* ------------------------------------------------------------------------
\* The scanners on their own: parse_pipeline, parse_redirection, parse_args
\* and parse_command applied to every short text over the characters the
\* scanners distinguish
\* ------------------------------------------------------------------------
Alphabet == { "a", " ", "'", "\"", "\\", "|", ">", "1", "2" }

Texts == UNION { [1..n -> Alphabet] : n \in 0..MaxText }

\* The PATH of these runs: one directory holding an executable named `a`
ScanPath == << [dir |-> s_dir_b, names |-> { s_a }] >>

session_vars == << path_dirs, all_executables, history, last_written_count, cwd,
                   files, stdout, stderr, launched, pc, nlines, input, commands,
                   pipes, pids, close_i, waited, parent_fds, fds_before, closed,
                   outcome, failures, procs, before, parent_read, home, live_dirs,
                   pipe_buf >>

ScanInit ==
  /\ path_dirs = ScanPath
  /\ all_executables = get_all_executables(path_dirs)
  /\ history = << >>
  /\ last_written_count = 0
  /\ cwd = s_root
  /\ files = [f \in {} |-> << >>]
  /\ stdout = << >>
  /\ stderr = << >>
  /\ launched = {}
  /\ pc = "scan"
  /\ nlines = 0
  /\ input = << >>
  /\ commands = << >>
  /\ pipes = << >>
  /\ pids = << >>
  /\ close_i = 0
  /\ waited = << >>
  /\ parent_fds = InitFds
  /\ fds_before = DOMAIN InitFds
  /\ closed = [f \in {} |-> 0]
  /\ outcome = "none"
  /\ failures = 0
  /\ procs = [q \in {} |-> 0]
  /\ before = [history |-> << >>, last_written_count |-> 0, cwd |-> s_root,
               files |-> [f \in {} |-> << >>]]
  /\ parent_read = FALSE
  /\ pipe_buf = [q \in {} |-> << >>]
  /\ scan_in \in Texts
  /\ scan_out = ScanIdle
  /\ home = HOME
  /\ live_dirs = Dirs

Scanned(op, value) ==
  /\ scan_out = ScanIdle
  /\ scan_out' = [op |-> op, value |-> value]
  /\ UNCHANGED << session_vars, scan_in >>

ScanPipeline ==
  /\ pc = "scan"
  /\ Scanned("parse_pipeline", parse_pipeline(scan_in))

ScanRedirection ==
  /\ pc = "scan"
  /\ Scanned("parse_redirection", parse_redirection(scan_in))

ScanArgs ==
  /\ pc = "scan"
  /\ Scanned("parse_args", parse_args(scan_in))

\* parse_args on the text put between single quotes
ScanQuoted ==
  /\ pc = "scan"
  /\ \A j \in 1..Len(scan_in) : scan_in[j] # "'"
  /\ Scanned("quoted", parse_args(<< "'" >> \o scan_in \o << "'" >>))

ScanCommand ==
  /\ pc = "scan"
  /\ Scanned("parse_command", parse_command(scan_in, all_executables))

ScanNext ==
  \/ ScanPipeline
  \/ ScanRedirection
  \/ ScanArgs
  \/ ScanQuoted
  \/ ScanCommand

ScanSpec == ScanInit /\ [][ScanNext]_vars

\* ------------------------------------------------------------------------
\* Properties
\* ------------------------------------------------------------------------

\* C1: in a pipeline, each stage's own redirection is applied in its child
\* after the pipes are wired.  Once the stage's command runs, the file named
\* by a `>`/`>>` target exists and fd 1 of the child is a newly opened file
\* (none of the descriptors it inherited: not the pipe, not the terminal);
\* the file named by a `2>`/`2>>` target exists and fd 2 is a newly opened
\* file.
StageRedirectionApplied ==
  \A pid \in DOMAIN procs :
    LET c == procs[pid]
        r == PipelineRedirections(parse_pipeline(input))[c.stage + 1]
        inheritedFiles == { c.inherited[fd] : fd \in DOMAIN c.inherited }
    IN (c.line = nlines /\ c.pc \in {"builtin", "ext", "zombie"} /\ r # None) =>
         /\ r[1].stdout_file # None =>
              /\ r[1].stdout_file[1] \in DOMAIN files
              /\ c.pc # "zombie" => c.fds[1] \notin inheritedFiles
         /\ r[1].stderr_file # None =>
              /\ r[1].stderr_file[1] \in DOMAIN files
              /\ c.pc # "zombie" => c.fds[2] \notin inheritedFiles

\* C2: no pipeline deadlocks on end of file.  For a pipeline of two or more
\* stages whose first stage does not read its standard input (every later
\* stage of the model ends once it reads end of file), eventually
\* execute_pipeline has returned to the main loop and every child forked
\* for the line has exited.
NoDeadlockOnEof ==
  \A n \in 1..MaxLines :
    (/\ nlines = n
     /\ pc = "pipe"
     /\ LET first == commands[1]
        IN IF is_builtin(first.command)
           THEN ~should_consume_stdin(first.command)
           ELSE ~ExtReadsStdin(first.command))
    ~> (/\ nlines > n \/ pc \in {"readline", "ended", "exited"}
        /\ \A pid \in DOMAIN procs :
             procs[pid].line = n => procs[pid].pc = "zombie")

\* C3: the shell does not read the next line until every child forked for
\* the current pipeline has been reaped: whenever the main loop is about to
\* call readline, waitpid has returned for each pid execute_pipeline forked,
\* on every return path.
AllReapedBeforeNextLine ==
  pc = "readline" => /\ waited = pids
                     /\ \A j \in 1..Len(pids) : pids[j] \notin DOMAIN procs

\* C4: descriptor hygiene.  After a pipeline of two or more stages has
\* completed normally, the descriptors open in the shell are exactly those
\* open before the line, and each read end and each write end of each pipe
\* of the line has been closed in the shell exactly once.
DescriptorHygiene ==
  (pc = "readline" /\ outcome = "ok" /\ Len(commands) >= 2) =>
    /\ DOMAIN parent_fds = fds_before
    /\ DOMAIN closed = { pipes[j].read_fd : j \in 1..Len(pipes) }
                         \cup { pipes[j].write_fd : j \in 1..Len(pipes) }
    /\ \A fd \in DOMAIN closed : closed[fd] = 1
    /\ Cardinality(DOMAIN closed) = 2 * Len(pipes)

DescriptorHygieneWitness ==
  /\ pc = "readline"
  /\ outcome = "ok"
  /\ Len(commands) = 3
  /\ Len(pipes) = 2
  /\ Len(waited) = 3

\* C5: pipe count.  For a line whose stages lex to N >= 2 non-empty
\* commands, when no pipe or fork call fails, execute_pipeline creates
\* exactly N-1 pipes and forks exactly N children, the j-th forked child
\* running the j-th stage from the left.
PipeCountAndForkOrder ==
  LET parts == parse_pipeline(input)
      N == Cardinality({ j \in 1..Len(parts) :
                           parse_args(parse_redirection(parts[j]).command_part)
                             # << >> })
  IN /\ (N >= 2 /\ commands # << >> /\ (pc \in {"close", "wait"} \/ outcome = "ok")) =>
          /\ Len(pipes) = N - 1
          /\ Len(pids) = N
          /\ Cardinality({ pids[j] : j \in 1..Len(pids) }) = N
     /\ commands # << >> =>
          /\ Len(pipes) <= N - 1 \/ N < 2
          /\ Len(pids) <= N
          /\ \A j \in 1..Len(pids) :
               pids[j] \in DOMAIN procs =>
                 /\ procs[pids[j]].stage = j - 1
                 /\ procs[pids[j]].command = commands[j].command
                 /\ procs[pids[j]].args = commands[j].args

PipeCountAndForkOrderWitness ==
  /\ pc = "close"
  /\ Len(commands) = 3
  /\ Len(pids) = 3
  /\ \A j \in 1..3 : pids[j] \in DOMAIN procs

\* C6: pipe wiring in children.  In child i of an N-stage pipeline, when
\* the stage's command starts (builtin body or exec), fd 0 is the read end
\* of pipe i-1 if i > 0 and the shell's standard input otherwise, fd 1 is
\* the write end of pipe i if i < N-1 and the shell's standard output
\* otherwise, and no original descriptor of any of the N-1 pipes is open in
\* the child.
ChildWiring ==
  \A pid \in DOMAIN procs :
    LET c == procs[pid]
        i == c.stage
    IN c.pc \in {"builtin", "exec", "ext"} =>
         /\ Len(c.pipes) = c.n - 1
         /\ IF i > 0
            THEN /\ c.fds[0] = c.inherited[c.pipes[i].read_fd]
                 /\ c.fds[0].end = "r"
            ELSE c.fds[0] = c.inherited[0]
         /\ IF i < c.n - 1
            THEN /\ c.fds[1] = c.inherited[c.pipes[i + 1].write_fd]
                 /\ c.fds[1].end = "w"
            ELSE c.fds[1] = c.inherited[1]
         /\ i > 0 /\ i < c.n - 1 => c.fds[0].pipe # c.fds[1].pipe
         /\ \A j \in 1..Len(c.pipes) :
              /\ c.pipes[j].read_fd \notin DOMAIN c.fds
              /\ c.pipes[j].write_fd \notin DOMAIN c.fds

ChildWiringWitness ==
  \E pid \in DOMAIN procs :
    /\ procs[pid].n = 3
    /\ procs[pid].stage = 1
    /\ procs[pid].pc \in {"builtin", "ext"}

\* C7: parent ordering.  The shell issues no waitpid before it has closed
\* all 2(N-1) pipe descriptors, and it then waits for every forked child in
\* fork order.
ParentClosesThenWaits ==
  /\ (pc = "wait" \/ waited # << >>) =>
       /\ Len(pipes) = Len(commands) - 1
       /\ Cardinality({ pipes[j].read_fd : j \in 1..Len(pipes) }
                        \cup { pipes[j].write_fd : j \in 1..Len(pipes) })
            = 2 * (Len(commands) - 1)
       /\ \A j \in 1..Len(pipes) :
            /\ pipes[j].read_fd \notin DOMAIN parent_fds
            /\ pipes[j].write_fd \notin DOMAIN parent_fds
  /\ Len(waited) <= Len(pids)
  /\ waited = SubSeq(pids, 1, Len(waited))
  /\ (outcome = "ok" /\ Len(commands) >= 2) =>
       /\ Len(pids) = Len(commands)
       /\ waited = pids

ParentClosesThenWaitsWitness ==
  /\ pc = "wait"
  /\ Len(pids) = 3
  /\ Len(waited) = 2

\* C8: exit, cd and history as a stage of a pipeline are no-ops for the
\* shell.  For a line with such a stage the shell never leaves through
\* `exit`, and until the main loop ends its working directory, history list,
\* written-count and every file are what they were when the line started;
\* the child of such a stage exits with status 0.
PipelineBuiltinsAreNoOps ==
  /\ (\E j \in 1..Len(commands) :
        commands[j].command \in { s_exit, s_cd, s_history }) =>
       /\ pc # "exited"
       /\ pc # "ended" =>
            /\ cwd = before.cwd
            /\ history = before.history
            /\ last_written_count = before.last_written_count
            /\ files = before.files
  /\ \A pid \in DOMAIN procs :
       (procs[pid].command \in { s_exit, s_cd, s_history }
        /\ procs[pid].pc = "zombie") => procs[pid].status = 0

PipelineBuiltinsAreNoOpsWitness ==
  /\ pc = "readline"
  /\ outcome = "ok"
  /\ Len(commands) = 2
  /\ commands[2].command = s_history
  /\ commands[2].args = << s_dash_w, s_h >>
  /\ waited = pids
  /\ before.history # << >>

\* C9: in a pipeline a type or pwd stage writes its output only after it
\* has read its standard input to end of file (or a read error); an echo
\* stage never reads its standard input.
DrainBeforeOutput ==
  /\ \A pid \in DOMAIN procs :
       LET c == procs[pid]
       IN /\ (c.command \in { s_type, s_pwd } /\ (c.wrote \/ c.pc = "zombie"))
               => c.drained /\ c.has_read
          /\ c.command = s_echo => ~c.has_read /\ ~c.drained
  /\ (Len(commands) = 1 /\ pc \in {"single_body", "readline"}) =>
       /\ commands[1].command \in { s_type, s_pwd } => parent_read
       /\ commands[1].command = s_echo => ~parent_read

DrainBeforeOutputWitness ==
  \E pid \in DOMAIN procs :
    /\ procs[pid].command = s_pwd
    /\ procs[pid].stage > 0
    /\ procs[pid].wrote
    /\ procs[pid].drained

\* C10: builtin shadowing.  For each of echo, exit, type, pwd, cd, history
\* and whatever the path cache holds, dispatch never runs an external
\* program for that name: parse_command gives no External action for a line
\* starting with it, is_builtin accepts it, and no program was launched
\* under that name, neither by execute_command nor by a pipeline child.
BuiltinShadowing ==
  LET names == { s_echo, s_exit, s_type, s_pwd, s_cd, s_history }
  IN /\ \A name \in names :
          /\ parse_command(name, all_executables).action.kind
               \notin {"External", "Unknown", "Pipeline"}
          /\ is_builtin(name)
     /\ \A l \in launched : l.command \notin names
     /\ \A pid \in DOMAIN procs :
          procs[pid].command \in names =>
            /\ procs[pid].pc \notin {"exec", "ext"}
            /\ procs[pid].program = << >>

BuiltinShadowingWitness ==
  /\ s_cd \in DOMAIN all_executables
  /\ \E pid \in DOMAIN procs :
       /\ procs[pid].command = s_cd
       /\ procs[pid].pc = "zombie"
       /\ find_command_in_path(s_cd) # None

\* C11: for every name of the built-in set {echo, exit, type, pwd, cd,
\* history}, `type <name>` prints `<name> is a shell builtin` on standard
\* output and nothing else, as a single-stage line and as a stage of a
\* pipeline (`ls | type <name> | cat 2> g`, where cat copies the stage's
\* output to the terminal).
TypeNamesEveryBuiltin ==
  \A name \in { s_echo, s_exit, s_type, s_pwd, s_cd, s_history } :
    LET t_type_name == s_type \o << " " >> \o name
    IN (/\ pc = "readline"
        /\ nlines > 0
        /\ outcome = "ok"
        /\ input \in { t_type_name, Pipe3(s_ls, t_type_name, t_cat_err_g) }) =>
         /\ stdout = << name \o MSG_IS_A_SHELL_BUILTIN >>
         /\ stderr = << >>

\* C12: an external program is launched for a stage only when the stage's
\* first token is a key of the path cache built at startup, and the program
\* launched is the cached absolute path; a name that is no builtin and no
\* key of the cache launches nothing, in a single-stage line and in every
\* stage of a pipeline alike.
OnlyCachedProgramsRun ==
  /\ \A l \in launched :
       /\ l.command \in DOMAIN all_executables
       /\ l.path = all_executables[l.command]
  /\ \A pid \in DOMAIN procs :
       LET c == procs[pid]
       IN (~is_builtin(c.command) /\ c.command \notin DOMAIN all_executables) =>
            /\ c.pc # "ext"
            /\ c.program = << >>

\* C13: a stage that lexes to zero tokens is never dispatched.  As a
\* single-stage line it is ignored: nothing is written to standard output
\* or standard error and nothing is launched.  In a pipeline it is dropped:
\* the stages handed to execute_pipeline are the stages with at least one
\* token, each with a non-empty command name.
ZeroTokenStageIgnored ==
  LET parts == parse_pipeline(input)
      lexes(part) == parse_args(parse_redirection(part).command_part)
  IN (pc = "readline" /\ nlines > 0) =>
       /\ (Len(parts) <= 1 /\ lexes(input) = << >>) =>
            /\ stdout = << >>
            /\ stderr = << >>
            /\ launched = {}
       /\ Len(parts) > 1 =>
            /\ Len(commands)
                 = Cardinality({ j \in 1..Len(parts) : lexes(parts[j]) # << >> })
            /\ \A j \in 1..Len(commands) : commands[j].command # << >>

\* C14: the splitter and the Lexer agree on which `|` are operators.  For
\* every line the main loop accepts (not blank), parse_pipeline returns the
\* line cut at exactly the `|` that the Lexer reads outside quotes with no
\* escape pending, each stage trimmed and the empty stages dropped.
SplitterAgreesWithLexer ==
  (scan_out.op = "parse_pipeline" /\ Trim(scan_in) # << >>) =>
    scan_out.value = CutAt(scan_in, OperatorAt(scan_in, "|"), 1, << >>, << >>)

\* C15: empty stages are dropped before execution even when one stage
\* remains.  For a line with an unquoted `|` whose splitting leaves exactly
\* one non-empty stage, parse_command returns what it returns for that stage
\* alone, so no operator `|` reaches the command name or the arguments.
SingleRemainingStageDispatched ==
  LET stages == CutAt(scan_in, OperatorAt(scan_in, "|"), 1, << >>, << >>)
  IN (/\ scan_out.op = "parse_command"
      /\ OperatorAt(scan_in, "|") # {}
      /\ Len(stages) = 1) =>
       scan_out.value = parse_command(stages[1], all_executables)

\* C16: quoting round trip.  For every string s with no single quote in it,
\* the empty string included, parse_args applied to `'` + s + `'` returns
\* exactly one token, and that token is s.
SingleQuoteRoundTrip ==
  scan_out.op = "quoted" => scan_out.value = << scan_in >>

\* The text with every run of spaces that the Lexer reads as separators
\* replaced by one space (RunsCollapsed) or by two (RunsDoubled)
RunsCollapsed(text) ==
  LET marks == LexerMarks(text)
      sep(j) == text[j] = " " /\ marks[j] = "op"
      keep == { j \in 1..Len(text) : ~(sep(j) /\ j > 1 /\ sep(j - 1)) }
      F[j \in 0..Len(text)] ==
        IF j = 0 THEN << >>
        ELSE IF j \in keep THEN Append(F[j - 1], text[j]) ELSE F[j - 1]
  IN F[Len(text)]

RunsDoubled(text) ==
  LET marks == LexerMarks(text)
      sep(j) == text[j] = " " /\ marks[j] = "op"
      F[j \in 0..Len(text)] ==
        IF j = 0 THEN << >>
        ELSE IF sep(j) /\ (j = 1 \/ ~sep(j - 1))
        THEN F[j - 1] \o << " ", " " >>
        ELSE Append(F[j - 1], text[j])
  IN F[Len(text)]

\* C17: whitespace idempotence of the Lexer.  Replacing every run of
\* unquoted, unescaped spaces by a single space, or a single one by a run,
\* leaves the token list of parse_args unchanged; a leading space, and a
\* trailing space that is neither quoted nor escaped, add no token; no token
\* is empty.
WhitespaceIdempotence ==
  scan_out.op = "parse_args" =>
    LET end == LexerReading(scan_in)
    IN /\ parse_args(RunsCollapsed(scan_in)) = scan_out.value
       /\ parse_args(RunsDoubled(scan_in)) = scan_out.value
       /\ parse_args(<< " " >> \o scan_in) = scan_out.value
       /\ (~end.in_single_quote /\ ~end.in_double_quote /\ ~end.escaped) =>
            parse_args(scan_in \o << " ", " " >>) = scan_out.value
       /\ \A j \in 1..Len(scan_out.value) : scan_out.value[j] # << >>

WhitespaceIdempotenceWitness ==
  /\ scan_in = << "a", " ", " ", "a" >>
  /\ scan_out.op = "parse_args"
  /\ scan_out.value = << << "a" >>, << "a" >> >>
  /\ RunsCollapsed(scan_in) = << "a", " ", "a" >>

\* C18: inside double quotes the Lexer takes a backslash as an escape only
\* before `"` or `\`: the backslash is dropped and the next character is
\* added literally without closing the quote.  Before any other character,
\* or as the last character of the input, the backslash is kept and the
\* next character is read normally; single quotes inside double quotes are
\* literal.  Stated on the texts `"` u `\` x w and `"` u `\` x w `"`, where
\* u and w hold neither `"` nor `\`.
BackslashInDoubleQuotes ==
  scan_out.op = "parse_args" =>
    \A k \in 2..Len(scan_in) :
      LET plain(s) == \A j \in 1..Len(s) : s[j] \notin { "\"", "\\" }
          u == SubSeq(scan_in, 2, k - 1)
          rest == SubSeq(scan_in, k + 2, Len(scan_in))
          w == IF rest # << >> /\ rest[Len(rest)] = "\""
               THEN SubSeq(rest, 1, Len(rest) - 1) ELSE rest
      IN (scan_in[1] = "\"" /\ scan_in[k] = "\\" /\ plain(u) /\ plain(w)) =>
           IF k = Len(scan_in)
           THEN scan_out.value = << u \o << "\\" >> >>
           ELSE IF scan_in[k + 1] \in { "\"", "\\" }
           THEN scan_out.value = << u \o << scan_in[k + 1] >> \o w >>
           ELSE scan_out.value = << u \o << "\\", scan_in[k + 1] >> \o w >>

BackslashInDoubleQuotesWitness ==
  /\ scan_in = << "\"", "\\", "\"", "'" >>
  /\ scan_out.op = "parse_args"
  /\ scan_out.value = << << "\"", "'" >> >>

\* The characters that mean something to a scanner, and a text with each
\* of them written as the ordinary character `a`
Special == { "|", ">", " ", "'", "\"" }

Blur(s) == [j \in 1..Len(s) |-> IF s[j] \in Special THEN "a" ELSE s[j]]

BlurAll(ss) == [j \in 1..Len(ss) |-> Blur(ss[j])]

BlurOption(o) == IF o = None THEN None ELSE Some(Blur(o[1]))

BlurRedirection(r) ==
  [command_part |-> Blur(r.command_part),
   redirection |->
     IF r.redirection = None THEN None
     ELSE Some([r.redirection[1] EXCEPT !.stdout_file = BlurOption(@),
                                        !.stderr_file = BlurOption(@)])]

\* The line with every special character that follows a backslash outside
\* quotes replaced by `a`
EscapesNeutral(text) ==
  [j \in 1..Len(text) |->
     IF LexerMarks(text)[j] = "esc" /\ text[j] \in Special THEN "a" ELSE text[j]]

\* C19: a backslash outside quotes takes the operator meaning from the next
\* character in all three scanners alike.  For a line as the main loop
\* hands it over (trimmed) that holds `\|`, `\>`, `\ `, `\'` or `\"` outside
\* quotes, each scanner does what it does when the escaped character is an
\* ordinary one: the splitter cuts the same stages, the redirection parser
\* records the same redirections and leaves the same residual command, and
\* the Lexer returns the same tokens, the escaped character in place of the
\* ordinary one and the backslash removed.
EscapeSuppressesOperators ==
  LET neutral == EscapesNeutral(scan_in)
  IN (Trim(scan_in) = scan_in /\ neutral # scan_in) =>
       /\ scan_out.op = "parse_pipeline" =>
            BlurAll(scan_out.value) = BlurAll(parse_pipeline(neutral))
       /\ scan_out.op = "parse_redirection" =>
            BlurRedirection(scan_out.value)
              = BlurRedirection(parse_redirection(neutral))
       /\ scan_out.op = "parse_args" =>
            /\ BlurAll(scan_out.value) = BlurAll(parse_args(neutral))
            /\ \A k \in 1..(Len(scan_in) - 1) :
                 (/\ scan_in[k] = "\\"
                  /\ scan_in[k + 1] \in Special
                  /\ \A j \in 1..Len(scan_in) :
                       j \notin { k, k + 1 } => scan_in[j] = "a") =>
                   scan_out.value
                     = << SubSeq(scan_in, 1, k - 1)
                            \o SubSeq(scan_in, k + 1, Len(scan_in)) >>

\* The six spellings of a redirection operator
RedirOps ==
  { [text |-> << ">" >>, fd |-> 1, append |-> FALSE],
    [text |-> << "1", ">" >>, fd |-> 1, append |-> FALSE],
    [text |-> << ">", ">" >>, fd |-> 1, append |-> TRUE],
    [text |-> << "1", ">", ">" >>, fd |-> 1, append |-> TRUE],
    [text |-> << "2", ">" >>, fd |-> 2, append |-> FALSE],
    [text |-> << "2", ">", ">" >>, fd |-> 2, append |-> TRUE] }

AllIn(s, chars) == \A j \in 1..Len(s) : s[j] \in chars

\* The redirection a single operator of the given slot and mode records
OneSlot(fd, append, file) ==
  [stdout_file |-> IF fd = 1 THEN Some(file) ELSE None,
   stdout_append |-> fd = 1 /\ append,
   stderr_file |-> IF fd = 2 THEN Some(file) ELSE None,
   stderr_append |-> fd = 2 /\ append]

\* C20: redirection operator recognition.  (1) A stage written as a command
\* of ordinary characters, one operator and a file name: `>`/`1>` fill the
\* fd-1 slot with truncate, `>>`/`1>>` the fd-1 slot with append, `2>` the
\* fd-2 slot with truncate, `2>>` the fd-2 slot with append, and the
\* residual command is the command alone, without operator and file name.
\* (2) A stage in which every `>` is quoted or escaped records no
\* redirection and is its own residual command, its `1`s and `2`s
\* included.  (3) A `1` or `2` followed by something other than `>` stays
\* in the residual
\* command of a stage that does have an operator (the following character
\* too, unless it is itself the prefix of the operator).  (4) Whatever
\* stands before the first operator of a stage, quoted `>` included, heads
\* the residual command unchanged.
OperatorRecognition ==
  scan_out.op = "parse_redirection" =>
    /\ \A i \in 1..Len(scan_in) : \A op \in RedirOps :
         LET cmd == SubSeq(scan_in, 1, i - 1)
             e == i + Len(op.text)
             file == SubSeq(scan_in, SkipSpaces(scan_in, e), Len(scan_in))
         IN (/\ e - 1 <= Len(scan_in)
             /\ SubSeq(scan_in, i, e - 1) = op.text
             /\ AllIn(cmd, { "a", " " })
             /\ file # << >>
             /\ AllIn(file, { "a" })) =>
              scan_out.value
                = [command_part |-> TrimEnd(cmd),
                   redirection |-> Some(OneSlot(op.fd, op.append, file))]
    /\ OperatorAt(scan_in, ">") = {} =>
         scan_out.value
           = [command_part |-> TrimEnd(scan_in), redirection |-> None]
    /\ \A d \in { "1", "2" } : \A x \in { "a", " ", "1", "2" } :
         \A n \in 1..Len(scan_in) :
           (/\ Len(scan_in) >= 3 + n
            /\ SubSeq(scan_in, 1, 3) = << d, x, ">" >>
            /\ AllIn(SubSeq(scan_in, 4, Len(scan_in)), { "a" })) =>
             scan_out.value
               = [command_part |-> IF x \in { "1", "2" } THEN << d >>
                                   ELSE TrimEnd(<< d, x >>),
                  redirection |->
                    Some(OneSlot(IF x = "2" THEN 2 ELSE 1, FALSE,
                                 SubSeq(scan_in, 4, Len(scan_in))))]
    /\ OperatorAt(scan_in, ">") # {} =>
         LET g == CHOOSE j \in OperatorAt(scan_in, ">") :
                    \A k \in OperatorAt(scan_in, ">") : j <= k
             prefixed == /\ g > 1
                         /\ scan_in[g - 1] \in { "1", "2" }
                         /\ LexerMarks(scan_in)[g - 1] = "op"
             head == TrimEnd(SubSeq(scan_in, 1,
                                    IF prefixed THEN g - 2 ELSE g - 1))
         IN /\ Len(scan_out.value.command_part) >= Len(head)
            /\ SubSeq(scan_out.value.command_part, 1, Len(head)) = head

\* a reachable case: `2>>a` fills the fd-2 slot with append and leaves no
\* residual command
OperatorRecognitionWitness ==
  /\ scan_in = << "2", ">", ">", "a" >>
  /\ scan_out = [op |-> "parse_redirection",
                 value |-> [command_part |-> << >>,
                            redirection |-> Some(OneSlot(2, TRUE, << "a" >>))]]

\* C21: file-name extraction honours quoting.  For a stage written as a
\* command of ordinary characters, the operator `>`, any spaces and a file
\* name wholly inside one pair of quotes, the fd-1 slot holds the quoted
\* name with its quotes and everything between them (spaces and `>`
\* included), and the residual command is the command alone: nothing of the
\* file name is left in it and no quote is left open.
FilenameHonoursQuoting ==
  scan_out.op = "parse_redirection" =>
    \A i \in 1..Len(scan_in) : \A q \in { "'", "\"" } :
      LET cmd == SubSeq(scan_in, 1, i - 1)
          name == SubSeq(scan_in, SkipSpaces(scan_in, i + 1), Len(scan_in))
      IN (/\ scan_in[i] = ">"
          /\ AllIn(cmd, { "a", " " })
          /\ Len(name) >= 2
          /\ name[1] = q
          /\ name[Len(name)] = q
          /\ AllIn(SubSeq(name, 2, Len(name) - 1), { "a", " ", ">", "1", "2" })) =>
           scan_out.value
             = [command_part |-> TrimEnd(cmd),
                redirection |-> Some(OneSlot(1, FALSE, name))]

\* The file f is as it was when the line was entered: there or not, and
\* with the same content
Untouched(f) ==
  /\ f \in DOMAIN files <=> f \in DOMAIN before.files
  /\ f \in DOMAIN files => files[f] = before.files[f]

\* The content of f when the line was entered, nothing if it was not there
Prior(f) == IF f \in DOMAIN before.files THEN before.files[f] ELSE << >>

\* C22: last-writer-wins.  When a line has several operators for one
\* descriptor, the slot holds the target and the mode of the last operator
\* that has a file name (an operator without one changes nothing), and
\* executing the line opens that target only: after `echo a > /f > /g`
\* /g holds the line `a` alone and /f is untouched; after
\* `echo a >> /f >> /g >` /g holds its prior content and then `a`, and /f
\* is untouched; after `echo a 2>> /f 2> /g` /g is empty and /f is
\* untouched; after `ls > /f > /g` /g holds the output of ls and /f is
\* untouched.
LastWriterWins ==
  /\ input = t_echo_f_then_g =>
       /\ parse_redirection(input).redirection
            = Some(OneSlot(1, FALSE, s_file_g))
       /\ files[s_file_g] = << s_a >>
       /\ Untouched(s_file_f)
  /\ input = t_echo_f_g_nothing =>
       /\ parse_redirection(input).redirection
            = Some(OneSlot(1, TRUE, s_file_g))
       /\ files[s_file_g] = Prior(s_file_g) \o << s_a >>
       /\ Untouched(s_file_f)
  /\ input = t_echo_err_f_then_g =>
       /\ parse_redirection(input).redirection
            = Some(OneSlot(2, FALSE, s_file_g))
       /\ files[s_file_g] = << >>
       /\ Untouched(s_file_f)
  /\ input = t_ls_f_then_g =>
       /\ parse_redirection(input).redirection
            = Some(OneSlot(1, FALSE, s_file_g))
       /\ files[s_file_g] = ExtLine(s_ls)
       /\ Untouched(s_file_f)

\* a reachable case: /f holds `x`, and after `echo a > /f > /g` it still
\* does, while /g holds `a`
LastWriterWinsWitness ==
  /\ input = t_echo_f_then_g
  /\ before.files = [f \in { s_file_f } |-> << s_x >>]
  /\ files = [f \in { s_file_f, s_file_g } |->
                IF f = s_file_f THEN << s_x >> ELSE << s_a >>]

\* The line just executed, as the Dispatcher read it
Parsed == parse_command(input, all_executables)

RedirOf(pr) == IF pr.redirection = None THEN OneSlot(0, FALSE, << >>)
               ELSE pr.redirection[1]

\* C23: single-stage echo and pwd with redirection.  With a stdout target
\* that can be opened, the output line is the last line of that file and
\* nothing is written to standard output.  With a stderr target only, that
\* file exists, holding nothing if opened by `2>` and what it held before if
\* opened by `2>>`, and the output line is alone on standard output.
EchoPwdRedirection ==
  LET pr == Parsed
      r == RedirOf(pr)
      output == IF pr.action.kind = "Echo" THEN JoinSpace(pr.action.args)
                ELSE before.cwd
  IN (/\ input # << >>
      /\ pr.action.kind \in { "Echo", "Pwd" }
      /\ pr.action.kind = "Pwd" => before.cwd \in live_dirs) =>
       /\ (r.stdout_file # None /\ ~OpenFails(r.stdout_file[1])) =>
            /\ r.stdout_file[1] \in DOMAIN files
            /\ files[r.stdout_file[1]] # << >>
            /\ files[r.stdout_file[1]][Len(files[r.stdout_file[1]])] = output
            /\ stdout = << >>
       /\ (r.stdout_file = None /\ r.stderr_file # None
           /\ ~OpenFails(r.stderr_file[1])) =>
            /\ r.stderr_file[1] \in DOMAIN files
            /\ files[r.stderr_file[1]]
                 = IF r.stderr_append THEN Prior(r.stderr_file[1]) ELSE << >>
            /\ stdout = << output >>

\* a reachable case: `pwd 2> /g` in the directory /t creates /g empty and
\* prints /t
EchoPwdRedirectionWitness ==
  /\ input = t_pwd_err_g
  /\ before.cwd = s_tmp
  /\ s_file_g \notin DOMAIN before.files
  /\ files[s_file_g] = << >>
  /\ stdout = << s_tmp >>

\* C24: a single-stage cd, type, exit or history line with a stderr target
\* that can be opened leaves that file created: empty after `2>`, with what
\* it held before after `2>>`; a stdout target on such a line is left
\* untouched.
OtherBuiltinsCreateStderrTarget ==
  LET pr == Parsed
      r == RedirOf(pr)
  IN (/\ input # << >>
      /\ pr.action.kind \in { "Cd", "Type", "Exit", "History", "HistoryRead",
                              "HistoryWrite", "HistoryAppend" }) =>
       /\ (r.stderr_file # None /\ ~OpenFails(r.stderr_file[1])) =>
            /\ r.stderr_file[1] \in DOMAIN files
            /\ files[r.stderr_file[1]]
                 = IF r.stderr_append THEN Prior(r.stderr_file[1]) ELSE << >>
       /\ r.stdout_file # None => Untouched(r.stdout_file[1])

\* C25: append and truncate over a sequence of lines.  After a single-stage
\* echo or pwd line whose only target is `> F`, F holds the output line and
\* nothing else; after one whose only target is `>> F`, F holds what it
\* held before and then the output line.  So after the lines
\* `echo a >> /f` and `echo b >> /f` of a session that found /f holding `x`
\* or missing, /f holds `x`, `a`, `b` or `a`, `b`.
AppendVersusTruncate ==
  LET pr == Parsed
      r == RedirOf(pr)
      output == IF pr.action.kind = "Echo" THEN JoinSpace(pr.action.args)
                ELSE before.cwd
  IN /\ (/\ input # << >>
         /\ pr.action.kind \in { "Echo", "Pwd" }
         /\ pr.action.kind = "Pwd" => before.cwd \in live_dirs
         /\ r.stdout_file # None
         /\ ~OpenFails(r.stdout_file[1])
         /\ r.stderr_file = None) =>
          files[r.stdout_file[1]]
            = IF r.stdout_append
              THEN Prior(r.stdout_file[1]) \o << output >>
              ELSE << output >>
     /\ history = << t_echo_a_app_f, t_echo_b_app_f >> =>
          files[s_file_f] \in { << s_a, s_b >>, << s_x, s_a, s_b >> }

\* a reachable case: /f held `x`, and two appending lines later it holds
\* `x`, `a`, `b`
AppendVersusTruncateWitness ==
  /\ history = << t_echo_a_app_f, t_echo_b_app_f >>
  /\ files[s_file_f] = << s_x, s_a, s_b >>

\* The display lines `    <index>  <command>` of the last n entries of a
\* list, each with its 1-based position in the whole list
LastEntriesNumbered(list, n) ==
  LET shown == IF n < Len(list) THEN n ELSE Len(list)
  IN [j \in 1..shown |->
        MSG_HISTORY_INDENT \o ToDigits(Len(list) - shown + j) \o MSG_TWO_SPACES
          \o list[Len(list) - shown + j]]

\* C26: `history N` prints the last min(N, len) of the previously accepted
\* lines, each with its 1-based position: after the line `history 2`,
\* standard output holds the last two of the lines accepted before it,
\* numbered by their positions (after `a`, `b`, `c`: 2 for `b`, 3 for `c`).
HistoryShowsPreviousLines ==
  input = t_history_2 =>
    stdout = LastEntriesNumbered(SubSeq(before.history, 1,
                                        Len(before.history) - 1), 2)

CdErrorHandling ==
  [][ (/\ pc = "readline"
       /\ nlines' = nlines + 1
       /\ parse_command(input', all_executables).action.kind = "Cd") =>
        LET args == parse_command(input', all_executables).action.args
            target == IF args = << >> \/ args[1] = s_tilde
                      THEN (IF home = None THEN s_root ELSE home[1])
                      ELSE args[1]
            reason == IF target \in live_dirs THEN MSG_PERMISSION_DENIED
                      ELSE IF target \in DOMAIN files THEN MSG_NOT_A_DIRECTORY
                      ELSE IF target \in Loops THEN MSG_UNKNOWN_ERROR
                      ELSE MSG_NO_SUCH_FILE
        IN /\ pc' = "readline"
           /\ stdout' = << >>
           /\ IF target \in live_dirs \ LockedDirs
              THEN cwd' = target /\ stderr' = << >>
              ELSE /\ cwd' = cwd
                   /\ stderr' = << MSG_CD \o target \o MSG_COLON \o reason >> ]_vars

\* a reachable case: `cd /p` into a directory that may not be entered
CdErrorHandlingWitness ==
  /\ input = t_cd_locked
  /\ cwd = before.cwd
  /\ stderr = << MSG_CD \o s_locked \o MSG_COLON \o MSG_PERMISSION_DENIED >>
  /\ pc = "readline"

AbandonedPipelineReleasesDescriptors ==
  (pc = "readline" /\ outcome = "err") =>
    /\ DOMAIN parent_fds = fds_before
    /\ \A j \in 1..Len(pipes) :
         /\ pipes[j].read_fd \notin DOMAIN parent_fds
         /\ pipes[j].write_fd \notin DOMAIN parent_fds

\* C32: the shell's main process never reads its own standard input while
\* it executes a line: the drain of type/pwd runs in forked children only,
\* also for a line such as `pwd | ''` of which one command remains.
ShellNeverDrainsOwnStdin ==
  /\ pc # "single_drain"
  /\ ~parent_read

====
